---- MODULE Spec2Model ----
(***************************************************************************)
(* Model of the conversational agent orchestrator:                         *)
(*   ChatOrchestrator.run            src/src/chatbot_ai_system/orchestrator.py *)
(*   AgenticEngine.execute           .../services/agentic_engine.py        *)
(*   ConversationRepository          .../repositories/conversation.py      *)
(*   OllamaProvider (stream, parse)  .../providers/ollama.py               *)
(*                                                                         *)
(* A turn is a task that walks through run() from one suspension point     *)
(* (await / yield) to the next; every action below is the code between two *)
(* suspension points.  The route that persists the user message and        *)
(* fetches the sliding window before calling run() is not part of the      *)
(* sources; it is modelled from the specification (StartTurn,              *)
(* FetchHistory).                                                          *)
(***************************************************************************)
EXTENDS Integers, Sequences, FiniteSets, TLC

(***************************************************************************)
(* Bounds of the model.                                                    *)
(***************************************************************************)
\* tool calls the model issues in one turn, over all its LLM rounds
MaxCalls == 2
\* the same, in the specifications that run two turns (SpecConc, SpecRetry)
MaxCallsMulti == 1
\* simple turns the initial conversation may already hold
MaxPrefillTurns == 25

(***************************************************************************)
(* Program constants.                                                      *)
(***************************************************************************)
\* get_recent_messages(conversation_id, limit=50): the sliding window
HISTORY_WINDOW == 50
\* agentic_engine.MAX_AGENT_ROUNDS
MAX_AGENT_ROUNDS == 8
\* run(): (current_seq - last_summarized_seq) >= 20
SUMMARY_GAP == 20
\* _summarize_conversation: fetch_limit = min(limit, 100)
SUMMARY_FETCH_CAP == 100

\* every task runs one turn on the same conversation
Tasks == {1, 2}
\* the single task of the sequential specification
SeqTasks == {1}

Min(a, b) == IF a < b THEN a ELSE b

RECURSIVE Concat(_)
\* "".join / += over a sequence of token sequences
Concat(ss) == IF ss = <<>> THEN <<>> ELSE Head(ss) \o Concat(Tail(ss))

(***************************************************************************)
(* Tools, tool calls and tool results.                                     *)
(***************************************************************************)
\* names the model may put in a tool call; "bogus" is in no registry
ToolNames == {"git_status", "bogus"}
\* ToolRegistry._tools / _remote_tools_cache as seen by get_tool
Registered == {"git_status"}
\* what tool.run may do: return, or raise (timeout, crashed server)
RunOutcomes == {"ok", "timeout", "crash"}

NoId == <<"none", 0>>

\* ToolCall(id, function.name); ids are opaque
ToolCallRec(id, name) == [id |-> id, name |-> name]

\* ids the provider attaches to structured tool calls: positional, the
\* same in every response
ProviderCalls(names) ==
    [i \in 1..Len(names) |-> ToolCallRec(<<"call", i>>, names[i])]

\* sequences of 1..n tool names
NameSeqs(n) == UNION {[1..k -> ToolNames] : k \in 1..n}

\* registry.get_tool(name) followed by tool.run(**args):
\* the outcomes the pair can have for a tool name
ToolOutcomes(name) ==
    IF name \in Registered THEN RunOutcomes ELSE {"not_found"}

\* str(e) of the exception behind a failed outcome
ErrorText(name, outcome) ==
    IF outcome = "not_found" THEN <<"Tool", name, "not", "found">>
    ELSE <<outcome>>

\* orchestrator.py:332-340: result of one tool call in the one-shot path
OneShotResult(name, outcome) ==
    IF outcome = "ok" THEN <<"output", "of", name>>
    ELSE <<"Error", "executing", "tool", name, ":">> \o ErrorText(name, outcome)

\* agentic_engine.py:504-515: result of one tool call in the ReAct loop
AgenticResult(name, outcome) ==
    IF outcome = "ok" THEN <<"output", "of", name>>
    ELSE <<"Error", "executing", name, ":">> \o ErrorText(name, outcome)

(***************************************************************************)
(* Messages: ChatMessage in the working list, Message rows in the          *)
(* repository.                                                             *)
(***************************************************************************)
ChatMsg(role, content, calls, callId) ==
    [role |-> role, content |-> content, tool_calls |-> calls,
     tool_call_id |-> callId]

\* the result message without its back-reference
ToolMsgNoId(tc, result) == ChatMsg("tool", result, <<>>, NoId)

\* orchestrator.py:346 / agentic_engine.py:518-522
ToolMsg(tc, result) == ChatMsg("tool", result, <<>>, tc.id)

\* orchestrator.py:296-300 / agentic_engine.py:484-488
AssistantCallMsg(content, calls) == ChatMsg("assistant", content, calls, NoId)

\* orchestrator.py:205, 261, 359: self.last_usage = None
NoUsage == <<0, 0>>

\* orchestrator.py:232, 285, 369: the usage the provider reports with the
\* last chunk of a stream, stored in self.last_usage: the token counts of
\* stream number n of turn `turn`
Usage(turn, n) == <<turn, n>>

\* a row of the messages table; turn is the turn that wrote it (bookkeeping)
Row(turn, seq, m) ==
    [turn |-> turn, sequence_number |-> seq, role |-> m.role,
     content |-> m.content, tool_calls |-> m.tool_calls,
     tool_call_id |-> m.tool_call_id]

\* ConversationRepository.add_message: session.add + flush
AddMessage(d, turn, seq, m) == Append(d, Row(turn, seq, m))

\* orchestrator.py:243-244, 312-313, 380-381, 397-398: add_message with
\* token_count_prompt and token_count_completion read from self.last_usage
\* (the field usage stands for both columns)
AddAnswer(d, turn, seq, m, usage) ==
    Append(d, Row(turn, seq, m) @@ [usage |-> usage])

RECURSIVE MaxSeq(_)
MaxSeq(d) ==
    IF d = <<>> THEN 0
    ELSE LET r == MaxSeq(Tail(d))
         IN IF Head(d).sequence_number > r THEN Head(d).sequence_number ELSE r

\* the route: the user message goes to the next sequence number
NextSequenceNumber(d) == MaxSeq(d) + 1

RECURSIVE InsertBySeq(_, _)
\* insert row r into a list sorted by ascending sequence_number
InsertBySeq(r, s) ==
    IF s = <<>> THEN <<r>>
    ELSE IF r.sequence_number < Head(s).sequence_number THEN <<r>> \o s
    ELSE <<Head(s)>> \o InsertBySeq(r, Tail(s))

\* the rows are in ascending order of sequence_number already
Ascending(d) ==
    \A i \in 1..(Len(d) - 1) : d[i].sequence_number <= d[i + 1].sequence_number

RECURSIVE SortBySeq(_)
\* ORDER BY sequence_number; rows of one number stay in the order written
SortBySeq(d) ==
    IF Ascending(d) THEN d
    ELSE InsertBySeq(d[Len(d)], SortBySeq(SubSeq(d, 1, Len(d) - 1)))

\* the query result handed back as fetched, newest first
RecentMessagesNewestFirst(d, limit) ==
    LET s == SortBySeq(d)
        n == Len(s)
        k == Min(limit, n)
    IN [i \in 1..k |-> s[n + 1 - i]]

\* ConversationRepository.get_recent_messages: ORDER BY sequence_number
\* DESC LIMIT limit, then reversed
RecentMessages(d, limit) ==
    LET s == SortBySeq(d)
        n == Len(s)
        k == Min(limit, n)
    IN SubSeq(s, n - k + 1, n)

(***************************************************************************)
(* Provider streams.  A stream is the chunk sequence of one                *)
(* provider.stream call plus whether it raises after the last chunk.       *)
(***************************************************************************)
PChunk(content, calls, done) ==
    [content |-> content, tool_calls |-> calls, done |-> done]

DoneChunk == PChunk(<<>>, <<>>, TRUE)

\* plain text answer, terminal chunk last
TextStream == <<PChunk(<<"answer">>, <<>>, FALSE), DoneChunk>>

\* text, then structured tool calls, terminal chunk last
StructuredStream(names) ==
    <<PChunk(<<"thinking">>, <<>>, FALSE),
      PChunk(<<>>, ProviderCalls(names), FALSE), DoneChunk>>

\* the model writes the tool calls as raw JSON text
RawJsonStream(names) == <<PChunk(<<"json">> \o names, <<>>, FALSE), DoneChunk>>

\* the chunk sequences a call with tools attached can deliver, with at
\* most n tool calls in it
ToolStreams(n) ==
    {TextStream}
    \cup {StructuredStream(ns) : ns \in NameSeqs(n)}
    \cup {RawJsonStream(ns) : ns \in NameSeqs(n)}

\* the chunks delivered before a stream raises (network / HTTP failure)
BrokenStreams == {<<>>, <<PChunk(<<"answer">>, <<>>, FALSE)>>}

\* OllamaProvider._try_parse_tool_calls: the JSON objects with a name in
\* the text become tool calls with fresh ids; None (here <<>>) otherwise
TryParseToolCalls(content, uuid) ==
    IF content # <<>> /\ Head(content) = "json"
    THEN [i \in 1..(Len(content) - 1) |->
            ToolCallRec(<<"uuid", uuid + i>>, content[i + 1])]
    ELSE <<>>

\* full_content after the whole stream (orchestrator.py:271)
FullContent(stream) == Concat([i \in 1..Len(stream) |-> stream[i].content])

\* current_tool_calls after the first k chunks (orchestrator.py:272-273)
CallsAfter(stream, k) ==
    Concat([i \in 1..k |-> stream[i].tool_calls])

\* a chunk as the caller sees it (StreamChunk: content, status, done)
OutChunk(content, status, done) ==
    [content |-> content, status |-> status, done |-> done]

Forward(c) == OutChunk(c.content, <<>>, c.done)

RECURSIVE ForwardedFrom(_, _)
\* orchestrator.py:275-278: a chunk of the first stream is yielded when no
\* tool call has been collected up to and including it
ForwardedFrom(stream, k) ==
    IF k > Len(stream) THEN <<>>
    ELSE (IF CallsAfter(stream, k) = <<>> THEN <<Forward(stream[k])>> ELSE <<>>)
         \o ForwardedFrom(stream, k + 1)

ForwardFirst(stream) == ForwardedFrom(stream, 1)

\* orchestrator.py:360-370: every chunk of the synthesis stream is yielded
ForwardAll(stream) == [i \in 1..Len(stream) |-> Forward(stream[i])]

(***************************************************************************)
(* State.                                                                  *)
(***************************************************************************)
VARIABLES
    db,            \* rows of the conversation, in persistence order
    run,           \* run[t]: the frame of the turn task t executes
    nextUuid,      \* uuid4 source
    turnsStarted,  \* turns started so far
    conv,          \* the Conversation row: summary, last_summarized_seq_id
    cache,         \* the entry conversation:{id}:context of the cache
    registry,      \* the ToolRegistry object
    mcp,           \* one MCPClient, its server and its cache entries
    ret,           \* what the last call under observation returned
    last_usage     \* ChatOrchestrator.last_usage, one field for all turns

vars == <<db, run, nextUuid, turnsStarted, conv, cache, registry, mcp, ret,
          last_usage>>

\* Conversation.summary / last_summarized_seq_id of a new conversation
NoSummary == [summary |-> <<>>, last_summarized_seq |-> 0]

IdleFrame ==
    [pc |-> "idle",
     turn |-> 0,
     hist_len |-> 0,               \* len(conversation_history)
     intent |-> "GENERAL",
     complexity |-> "SIMPLE",
     tools |-> <<>>,               \* names of the attached tools
     current_seq |-> 0,
     appended |-> <<>>,            \* messages appended to `messages`
     current_tool_calls |-> <<>>,
     idx |-> 0,                    \* position in the tool-call loop
     full_content |-> <<>>,
     parsed |-> FALSE,             \* tool calls came from the text parser
     chunks |-> <<>>,              \* chunks yielded to the caller so far
     executed |-> <<>>,            \* log of tool executions: call, outcome
     budget |-> 0,                 \* tool calls the model will issue at most
     issued |-> 0,                 \* tool calls issued by the model so far
     streams |-> 0,                \* provider.stream calls made so far
     llm_calls |-> <<>>,           \* per stream call: tools passed, last message
     plan_len |-> 0,               \* total_steps
     round_num |-> 0,
     current_step |-> 0,
     agentic_content |-> <<>>,
     user_id |-> FALSE,            \* the request supplies a user id
     user_text |-> 1,              \* which text the user sent
     conv_summary |-> <<>>,        \* summary text read at the start of run()
     last_summarized_seq |-> 0,    \* read with it
     semantic_context |-> <<>>,    \* recall section of the system prompt
     segment |-> <<>>,             \* messages_to_summarize, as sequence numbers
     new_summary |-> <<>>,         \* new_segment_summary
     old_summary |-> <<>>,         \* summary read back before the merge
     sum_state |-> "none",         \* summarization: none, running, failed, stored
     sum_failed_at |-> "none",     \* the step whose exception was logged
     sum_prev |-> NoSummary,       \* the Conversation row the write replaced
     raised_at |-> "none"]         \* where the exception left run()

Finished(t) == run[t].pc \in {"idle", "done", "raised"}

\* the arguments of a provider.stream call: the tools passed (<<>> for
\* None) and the role of the last message of the list passed
StreamCall(f, tools) ==
    [tools |-> tools,
     last_role |-> IF f.appended = <<>> THEN "user"
                   ELSE f.appended[Len(f.appended)].role]

\* an exception leaves run(): the generator ends, nothing more is yielded
Raise(f) == [f EXCEPT !.pc = "raised", !.raised_at = f.pc]

UserMsg(turn) == ChatMsg("user", <<"question">>, <<>>, NoId)
TextMsg(content) == ChatMsg("assistant", content, <<>>, NoId)

\* _summarize_conversation:433-441: the messages handed to the summary
\* prompt, as their sequence numbers in the order they are joined:
\* get_recent_messages returns them oldest first, reversed() turns them
\* newest first
SegmentToSummarize(d, current_seq, last_seq) ==
    LET recent == RecentMessages(d, Min(current_seq - last_seq, SUMMARY_FETCH_CAP))
        n      == Len(recent)
    IN [i \in 1..n |-> recent[n + 1 - i].sequence_number]

\* _summarize_conversation:467-485: a summary is modelled by the messages
\* it was made from; the merge call consolidates the old and the new one
FinalSummary(old_summary, new_segment_summary) == old_summary \o new_segment_summary

\* ConversationRepository.update_summary
UpdateSummary(summary, last_seq_id) ==
    [summary |-> summary, last_summarized_seq |-> last_seq_id]

\* run():411-420 with _summarize_conversation when every call succeeds
SummarizedAtEnd(d, c, current_seq) ==
    IF current_seq - c.last_summarized_seq >= SUMMARY_GAP
    THEN UpdateSummary(FinalSummary(c.summary,
                          SegmentToSummarize(d, current_seq, c.last_summarized_seq)),
                       current_seq)
    ELSE c

RECURSIVE PrefillState(_)
\* the conversation after k simple turns without tools, each run by the
\* code below: user message by the route, answer at len(history) + 1,
\* summarization at the end of the turn
PrefillState(k) ==
    IF k = 0 THEN [db |-> <<>>, conv |-> NoSummary]
    ELSE LET p  == PrefillState(k - 1)
             d1 == AddMessage(p.db, 0, NextSequenceNumber(p.db), UserMsg(0))
             h  == Len(RecentMessages(d1, HISTORY_WINDOW))
             d2 == AddMessage(d1, 0, h + 1, TextMsg(<<"answer">>))
         IN [db |-> d2, conv |-> SummarizedAtEnd(d2, p.conv, h + 1)]

PrefillDb(k) == PrefillState(k).db

\* no entry under the context key
NoCache == [present |-> FALSE, semantic_context |-> <<>>, conv_summary |-> <<>>]

\* ToolRegistry.__init__
NewRegistry ==
    [tools |-> <<>>,          \* _tools, in insertion order
     clients |-> <<>>,        \* _mcp_clients
     remote |-> <<>>,         \* _remote_tools_cache, in insertion order
     refreshing |-> 0,        \* refresh_remote_tools awaits this client
     before |-> <<>>]         \* the remote cache when that refresh began

\* a task that called nothing on the client
IdleOp ==
    [pc |-> "idle", op |-> "none", value |-> <<"none", "">>, connects |-> 0]

\* no value under a key of the cache
Absent == <<"absent">>

\* MCPClient.__init__ of the client "git", with the keys of the cache it
\* uses: session, the entry mcp:tools:git, the entries tool:git:{tool}:{hash}
NewMcp ==
    [session |-> "none",      \* self.session: "none", "live", or "closed",
                              \* a session whose transport was closed
     session_in |-> 0,        \* the stack the session was entered into
     exit_stack |-> 0,        \* self._exit_stack: 0 is None, else the stack
     children |-> <<FALSE, FALSE>>, \* the subprocess of each stack is running
     redis |-> "up",          \* the store: "none" when redis_client._redis
                              \* is None, "raising" when it raises on every
                              \* operation, else "up"
     tools_entry |-> Absent,
     results |-> <<>>,        \* the result entries present, as key and value
     ops |-> [t \in Tasks |-> IdleOp]]  \* the operation each task is in

\* nothing was called
NoRet == [op |-> "none"]

\* the conversation the turns start from; the registry and the tool client
\* are not part of these turns
StartFrom(k) ==
    /\ db = PrefillState(k).db
    /\ conv = PrefillState(k).conv
    /\ cache = NoCache
    /\ registry = NewRegistry
    /\ mcp = NewMcp
    /\ ret = NoRet
    /\ last_usage = NoUsage

InitFrames == [t \in Tasks |-> IdleFrame]

Init ==
    /\ \E k \in {0, MaxPrefillTurns} : StartFrom(k)
    /\ run = InitFrames
    /\ nextUuid = 0
    /\ turnsStarted = 0

InitConc ==
    /\ StartFrom(0)
    /\ run = InitFrames
    /\ nextUuid = 0
    /\ turnsStarted = 0

Set(t, f) == run' = [run EXCEPT ![t] = f]

(***************************************************************************)
(* The route (modelled from the specification, 4.7 step 1 and 4.4): the    *)
(* user message is persisted at the next sequence number, then the         *)
(* sliding window is fetched and handed to run() as conversation_history.  *)
(***************************************************************************)
BeginTurn(t, budget) ==
    /\ run[t].pc = "idle"
    /\ db' = AddMessage(db, turnsStarted + 1, NextSequenceNumber(db),
                        UserMsg(turnsStarted + 1))
    /\ turnsStarted' = turnsStarted + 1
    /\ Set(t, [IdleFrame EXCEPT !.pc = "history", !.turn = turnsStarted + 1,
                                !.budget = budget])
    /\ UNCHANGED <<nextUuid, conv, cache, registry, mcp, ret, last_usage>>

\* a turn starts when no other turn is running
StartTurn(t) ==
    /\ \A u \in Tasks : Finished(u)
    /\ BeginTurn(t, MaxCalls)

\* a turn of a concurrent request on the same conversation
StartTurnConc(t) == BeginTurn(t, MaxCallsMulti)

\* a second request (a retry) once the turn before it has ended
StartTurnRetry(t) ==
    /\ \A u \in Tasks : Finished(u)
    /\ BeginTurn(t, MaxCallsMulti)

FetchHistory(t) ==
    /\ run[t].pc = "history"
    /\ Set(t, [run[t] EXCEPT !.pc = "summary",
                             !.hist_len = Len(RecentMessages(db, HISTORY_WINDOW))])
    /\ UNCHANGED <<db, nextUuid, turnsStarted, conv, cache, registry, mcp, ret, last_usage>>


(***************************************************************************)
(* ChatOrchestrator.run up to the dispatch.                                *)
(***************************************************************************)
Intents == {"GENERAL", "GIT"}
Complexities == {"SIMPLE", "COMPLEX"}

\* orchestrator.py:152-156: _filter_tools returns [] for GENERAL; every
\* other selection depends on the registry content and the query
SelectedTools(intent, complexity) ==
    IF complexity = "SIMPLE" /\ intent = "GENERAL"
    THEN {<<>>}
    ELSE {<<>>, <<"git_status">>}

\* the dispatch looking at the complexity alone
DispatchOnComplexity(complexity, tools) ==
    IF complexity = "COMPLEX" THEN "plan" ELSE "stream1"

\* orchestrator.py:203: COMPLEX with tools goes to the agentic engine
Dispatch(complexity, tools) ==
    IF complexity = "COMPLEX" /\ tools # <<>> THEN "plan" ELSE "stream1"

\* orchestrator.py:121-125: the summary and the sequence number it covers
FetchSummary(t) ==
    /\ run[t].pc = "summary"
    /\ Set(t, [run[t] EXCEPT !.pc = "cache_get",
                             !.conv_summary = conv.summary,
                             !.last_summarized_seq = conv.last_summarized_seq])
    /\ UNCHANGED <<db, nextUuid, turnsStarted, conv, cache, registry, mcp, ret, last_usage>>

\* orchestrator.py:126-129: the read raised; the turn goes on with no
\* summary and with last_summarized_seq = 0
FetchSummaryFails(t) ==
    /\ run[t].pc = "summary"
    /\ Set(t, [run[t] EXCEPT !.pc = "cache_get",
                             !.conv_summary = <<>>,
                             !.last_summarized_seq = 0])
    /\ UNCHANGED <<db, nextUuid, turnsStarted, conv, cache, registry, mcp, ret, last_usage>>

\* orchestrator.py:136-140: an entry fills the fragments that are empty
FromCache(f, entry) ==
    [f EXCEPT !.semantic_context = IF f.semantic_context = <<>>
                                   THEN entry.semantic_context ELSE @,
              !.conv_summary = IF f.conv_summary = <<>>
                               THEN entry.conv_summary ELSE @]

\* orchestrator.py:131-143: redis_client.get returns the entry, or None
\* when there is none, it has expired or the cache cannot be reached
CacheGet(t) ==
    /\ run[t].pc = "cache_get"
    /\ \/ /\ cache.present
          /\ Set(t, [FromCache(run[t], cache) EXCEPT !.pc = "classify"])
       \/ Set(t, [run[t] EXCEPT !.pc = "classify"])
    /\ UNCHANGED <<db, nextUuid, turnsStarted, conv, cache, registry, mcp, ret, last_usage>>

\* orchestrator.py:145-148: one provider.complete call; it may raise
Classify(t) ==
    /\ run[t].pc = "classify"
    /\ \/ Set(t, Raise(run[t]))
       \/ \E i \in Intents, c \in Complexities :
            Set(t, [run[t] EXCEPT !.pc = "select", !.intent = i,
                                  !.complexity = c])
    /\ UNCHANGED <<db, nextUuid, turnsStarted, conv, cache, registry, mcp, ret, last_usage>>

\* orchestrator.py:152-156: tool selection
SelectTools(t) ==
    /\ run[t].pc = "select"
    /\ \E ts \in SelectedTools(run[t].intent, run[t].complexity) :
         Set(t, [run[t] EXCEPT !.tools = ts, !.pc = "recall"])
    /\ UNCHANGED <<db, nextUuid, turnsStarted, conv, cache, registry, mcp, ret, last_usage>>

\* the texts a user sends
UserTexts == {1, 2}

\* search_similar_messages(user_id, embedding of user_input, limit=3): the
\* section built from its result, <<>> when nothing is similar enough
RecallFor(user_text) == {<<>>, <<"recall", user_text>>}

\* orchestrator.py:159-175: retrieval runs when the section is still
\* empty; an exception of the embedding service or the search is logged
Retrieved(f) ==
    IF f.semantic_context # <<>> THEN {f.semantic_context}
    ELSE IF f.user_id THEN RecallFor(f.user_text)
    ELSE {<<>>}

Recall(t) ==
    /\ run[t].pc = "recall"
    /\ \E sc \in Retrieved(run[t]) :
         Set(t, [run[t] EXCEPT !.semantic_context = sc, !.pc = "cache_set"])
    /\ UNCHANGED <<db, nextUuid, turnsStarted, conv, cache, registry, mcp, ret, last_usage>>

\* orchestrator.py:178-203: the fragments are cached (a write the cache
\* loses reads like a miss of CacheGet), the message list is prepared
\* (current_seq = len(conversation_history)) and the turn is dispatched
CacheSet(t) ==
    /\ run[t].pc = "cache_set"
    /\ cache' = [present |-> TRUE,
                 semantic_context |-> run[t].semantic_context,
                 conv_summary |-> run[t].conv_summary]
    /\ Set(t, [run[t] EXCEPT !.current_seq = run[t].hist_len,
                             !.pc = Dispatch(run[t].complexity, run[t].tools)])
    /\ UNCHANGED <<db, nextUuid, turnsStarted, conv, registry, mcp, ret, last_usage>>

\* run() from its first await to the dispatch
Compose(t) ==
    \/ FetchSummary(t)
    \/ CacheGet(t)
    \/ Classify(t)
    \/ SelectTools(t)
    \/ Recall(t)
    \/ CacheSet(t)

(***************************************************************************)
(* SIMPLE: the one-shot path, orchestrator.py:258-409.                     *)
(***************************************************************************)
\* orchestrator.py:287-291: the parser runs when no structured call came
\* and tools are attached
FallbackCalls(f, stream, uuid) ==
    IF CallsAfter(stream, Len(stream)) = <<>> /\ f.tools # <<>>
    THEN TryParseToolCalls(FullContent(stream), uuid)
    ELSE <<>>

\* orchestrator.py:264-301: the first stream was consumed to its end
AfterFirstStream(f, stream, uuid) ==
    LET structured == CallsAfter(stream, Len(stream))
        fallback   == FallbackCalls(f, stream, uuid)
        calls      == IF structured # <<>> THEN structured ELSE fallback
        g == [f EXCEPT !.chunks = f.chunks \o ForwardFirst(stream),
                       !.full_content = FullContent(stream),
                       !.current_tool_calls = calls,
                       !.parsed = (structured = <<>> /\ fallback # <<>>),
                       !.issued = f.issued + Len(calls),
                       !.streams = f.streams + 1,
                       !.llm_calls = Append(@, StreamCall(f, f.tools))]
    IN IF calls # <<>>
       THEN [g EXCEPT !.appended =
                         Append(f.appended,
                                AssistantCallMsg(FullContent(stream), calls)),
                      !.pc = "persist_calls"]
       ELSE [g EXCEPT !.pc = "persist_final"]

\* the streams the first call can deliver
FirstStreams(f) ==
    IF f.tools # <<>> THEN ToolStreams(f.budget) ELSE {TextStream}

StreamFirst(t) ==
    /\ run[t].pc = "stream1"
    /\ \E s \in FirstStreams(run[t]) :
         /\ Set(t, AfterFirstStream(run[t], s, nextUuid))
         /\ nextUuid' = nextUuid + Len(FallbackCalls(run[t], s, nextUuid))
    /\ UNCHANGED <<db, turnsStarted, conv, cache, registry, mcp, ret>>
    /\ last_usage' = Usage(run[t].turn, run[t].streams + 1)

\* the provider raises in the middle of the first stream
StreamFirstFails(t) ==
    /\ run[t].pc = "stream1"
    /\ \E s \in BrokenStreams :
         Set(t, Raise([run[t] EXCEPT !.chunks = @ \o ForwardFirst(s),
                                     !.streams = @ + 1,
                                     !.llm_calls =
                                        Append(@, StreamCall(run[t], run[t].tools))]))
    /\ UNCHANGED <<db, nextUuid, turnsStarted, conv, cache, registry, mcp, ret>>
    /\ last_usage' = NoUsage

\* orchestrator.py:250-252, 413-420: the summarization check, made once
\* the answer row is written
EndOfTurnPc(f) ==
    IF f.current_seq + 1 - f.last_summarized_seq >= SUMMARY_GAP
    THEN "sum_fetch" ELSE "done"

\* a repository call: it writes the row, or raises and writes nothing
Persist(t, m, nextpc) ==
    LET f == [run[t] EXCEPT !.current_seq = @ + 1]
    IN \/ /\ db' = AddAnswer(db, f.turn, f.current_seq, m, last_usage)
          /\ Set(t, [f EXCEPT !.pc = nextpc])
       \/ /\ Set(t, Raise(f))
          /\ UNCHANGED db

\* orchestrator.py:303-315: the assistant message with its tool calls
PersistCalls(t) ==
    /\ run[t].pc = "persist_calls"
    /\ Persist(t, AssistantCallMsg(run[t].full_content,
                                   run[t].current_tool_calls), "exec_tool")
    /\ UNCHANGED <<nextUuid, turnsStarted, conv, cache, registry, mcp, ret, last_usage>>

\* the record of one tool execution
Execution(tc, outcome, f) ==
    [call |-> tc, outcome |-> outcome, after_stream |-> f.streams]

\* the tool loop letting the tool's exception leave run()
OneShotToolAborts(f, outcome) ==
    LET tc == f.current_tool_calls[f.idx + 1]
        g  == [f EXCEPT !.chunks = Append(@, OutChunk(<<>>, <<"Executing", tc.name>>, FALSE))]
    IN IF outcome # "ok"
       THEN Raise(g)
       ELSE [g EXCEPT !.appended = Append(@, ToolMsg(tc, OneShotResult(tc.name, outcome))),
                      !.executed = Append(@, Execution(tc, outcome, f)),
                      !.pc = "persist_tool"]

\* orchestrator.py:326-347: one iteration of the tool loop up to the
\* repository call: status chunk, get_tool + run, result message
OneShotTool(f, outcome) ==
    LET tc == f.current_tool_calls[f.idx + 1]
    IN [f EXCEPT !.chunks = Append(@, OutChunk(<<>>, <<"Executing", tc.name>>, FALSE)),
                 !.appended = Append(@, ToolMsg(tc, OneShotResult(tc.name, outcome))),
                 !.executed = Append(@, Execution(tc, outcome, f)),
                 !.pc = "persist_tool"]

ExecTool(t) ==
    /\ run[t].pc = "exec_tool"
    /\ \E o \in ToolOutcomes(run[t].current_tool_calls[run[t].idx + 1].name) :
         Set(t, OneShotTool(run[t], o))
    /\ UNCHANGED <<db, nextUuid, turnsStarted, conv, cache, registry, mcp, ret, last_usage>>

\* orchestrator.py:326, 357: the loop goes on to the next call, or ends
AfterToolPc(f) ==
    IF f.idx + 1 < Len(f.current_tool_calls) THEN "exec_tool" ELSE "synthesis"

\* orchestrator.py:344-355: the tool result row
PersistTool(t) ==
    /\ run[t].pc = "persist_tool"
    /\ LET f == [run[t] EXCEPT !.current_seq = @ + 1]
       IN \/ /\ db' = AddMessage(db, f.turn, f.current_seq,
                                 f.appended[Len(f.appended)])
             /\ Set(t, [f EXCEPT !.idx = @ + 1, !.pc = AfterToolPc(f)])
          \/ /\ Set(t, Raise(f))
             /\ UNCHANGED db
    /\ UNCHANGED <<nextUuid, turnsStarted, conv, cache, registry, mcp, ret, last_usage>>

\* the synthesis stream called with the tools still attached
SynthesisKeepsTools(t) ==
    /\ run[t].pc = "synthesis"
    /\ Set(t, [run[t] EXCEPT !.chunks = @ \o ForwardAll(TextStream),
                             !.full_content = FullContent(TextStream),
                             !.streams = @ + 1,
                             !.llm_calls = Append(@, StreamCall(run[t], run[t].tools)),
                             !.pc = "persist_synthesis"])
    /\ UNCHANGED <<db, nextUuid, turnsStarted, conv, cache, registry, mcp, ret>>
    /\ last_usage' = Usage(run[t].turn, run[t].streams + 1)

\* orchestrator.py:357-370: the synthesis stream, tools=None
Synthesis(t) ==
    /\ run[t].pc = "synthesis"
    /\ Set(t, [run[t] EXCEPT !.chunks = @ \o ForwardAll(TextStream),
                             !.full_content = FullContent(TextStream),
                             !.streams = @ + 1,
                             !.llm_calls = Append(@, StreamCall(run[t], <<>>)),
                             !.pc = "persist_synthesis"])
    /\ UNCHANGED <<db, nextUuid, turnsStarted, conv, cache, registry, mcp, ret>>
    /\ last_usage' = Usage(run[t].turn, run[t].streams + 1)

SynthesisFails(t) ==
    /\ run[t].pc = "synthesis"
    /\ \E s \in BrokenStreams :
         Set(t, Raise([run[t] EXCEPT !.chunks = @ \o ForwardAll(s),
                                     !.streams = @ + 1,
                                     !.llm_calls =
                                        Append(@, StreamCall(run[t], <<>>))]))
    /\ UNCHANGED <<db, nextUuid, turnsStarted, conv, cache, registry, mcp, ret>>
    /\ last_usage' = NoUsage

\* orchestrator.py:372-383: the synthesis row
PersistSynthesis(t) ==
    /\ run[t].pc = "persist_synthesis"
    /\ Persist(t, TextMsg(run[t].full_content), EndOfTurnPc(run[t]))
    /\ UNCHANGED <<nextUuid, turnsStarted, conv, cache, registry, mcp, ret, last_usage>>

\* orchestrator.py:388-400: the answer row of a turn without tool calls
PersistFinal(t) ==
    /\ run[t].pc = "persist_final"
    /\ Persist(t, TextMsg(run[t].full_content), EndOfTurnPc(run[t]))
    /\ UNCHANGED <<nextUuid, turnsStarted, conv, cache, registry, mcp, ret, last_usage>>

OneShot(t) ==
    \/ StreamFirst(t)
    \/ StreamFirstFails(t)
    \/ PersistCalls(t)
    \/ ExecTool(t)
    \/ PersistTool(t)
    \/ Synthesis(t)
    \/ SynthesisFails(t)
    \/ PersistSynthesis(t)
    \/ PersistFinal(t)

(***************************************************************************)
(* COMPLEX: planner and Plan + ReAct executor.  run() forwards every chunk *)
(* execute() yields and adds its content to agentic_content                *)
(* (orchestrator.py:222-233).                                              *)
(***************************************************************************)
\* plan lengths create_plan may return
PlanLens == {1, 2}

\* a chunk yielded by execute() and forwarded by run()
Yield(f, c) ==
    [f EXCEPT !.chunks = Append(@, c),
              !.agentic_content = @ \o c.content]

StatusChunk(status) == OutChunk(<<>>, status, FALSE)

\* orchestrator.py:212-216: create_plan, one provider.complete call
CreatePlan(t) ==
    /\ run[t].pc = "plan"
    /\ \/ Set(t, Raise(run[t]))
       \/ \E n \in PlanLens :
            Set(t, [run[t] EXCEPT !.plan_len = n, !.pc = "execute"])
    /\ UNCHANGED <<db, nextUuid, turnsStarted, conv, cache, registry, mcp, ret>>
    /\ last_usage' = NoUsage

GuidanceMsg(words) == ChatMsg("user", words, <<>>, NoId)

\* agentic_engine.py:384-425: plan status chunk, system prompt, guidance
ExecuteStart(t) ==
    /\ run[t].pc = "execute"
    /\ Set(t, [Yield(run[t], StatusChunk(<<"Plan">>)) EXCEPT
                 !.appended = Append(@, GuidanceMsg(<<"Execute", "step", "1">>)),
                 !.round_num = 0,
                 !.current_step = 0,
                 !.pc = "react"])
    /\ UNCHANGED <<db, nextUuid, turnsStarted, conv, cache, registry, mcp, ret, last_usage>>

\* agentic_engine.py:428-439: elapsed > AGENT_TIMEOUT_SEC at the loop head
ReactTimeout(t) ==
    /\ run[t].pc = "react"
    /\ Set(t, [Yield(run[t], StatusChunk(<<"Timeout", "reached">>)) EXCEPT
                 !.pc = "force_synthesis"])
    /\ UNCHANGED <<db, nextUuid, turnsStarted, conv, cache, registry, mcp, ret, last_usage>>

\* agentic_engine.py:441-489: one LLM round with tools; the stream ended
AfterReactStream(f, stream, uuid) ==
    LET structured == CallsAfter(stream, Len(stream))
        fallback   == FallbackCalls(f, stream, uuid)
        calls      == IF structured # <<>> THEN structured ELSE fallback
        \* full_content = "" when the calls were parsed from it
        content    == IF structured = <<>> /\ fallback # <<>>
                      THEN <<>> ELSE FullContent(stream)
        g == [f EXCEPT !.full_content = content,
                       !.current_tool_calls = calls,
                       !.parsed = (structured = <<>> /\ fallback # <<>>),
                       !.issued = f.issued + Len(calls),
                       !.idx = 0,
                       !.streams = f.streams + 1,
                       !.llm_calls = Append(@, StreamCall(f, f.tools))]
    IN IF calls = <<>>
       THEN [Yield(Yield(g, StatusChunk(<<"Synthesizing", "final", "answer">>)),
                   OutChunk(content, <<>>, TRUE))
             EXCEPT !.pc = "persist_agentic"]
       ELSE [g EXCEPT !.appended = Append(@, AssistantCallMsg(content, calls)),
                      !.pc = "react_tool"]

ReactRound(t) ==
    /\ run[t].pc = "react"
    /\ \E s \in ToolStreams(run[t].budget - run[t].issued) :
         /\ Set(t, AfterReactStream(run[t], s, nextUuid))
         /\ nextUuid' = nextUuid + Len(FallbackCalls(run[t], s, nextUuid))
    /\ UNCHANGED <<db, turnsStarted, conv, cache, registry, mcp, ret>>
    /\ last_usage' = IF run'[t].pc = "persist_agentic"
                     THEN Usage(run[t].turn, run[t].streams + 1)
                     ELSE last_usage

\* the provider raises during a round: execute() yields none of the
\* stream's chunks, the exception leaves execute() and run()
ReactRoundFails(t) ==
    /\ run[t].pc = "react"
    /\ Set(t, Raise([run[t] EXCEPT !.streams = @ + 1,
                                   !.llm_calls =
                                      Append(@, StreamCall(run[t], run[t].tools))]))
    /\ UNCHANGED <<db, nextUuid, turnsStarted, conv, cache, registry, mcp, ret, last_usage>>

\* the round loop without its cap
EndOfRoundNoCap(f) ==
    LET step == f.current_step + 1
        guide == IF step < f.plan_len
                 THEN GuidanceMsg(<<"Proceed", "to", "next", "step">>)
                 ELSE GuidanceMsg(<<"Synthesize", "no", "more", "tools">>)
    IN [f EXCEPT !.current_step = step,
                 !.appended = Append(@, guide),
                 !.round_num = @ + 1,
                 !.pc = "react"]

\* agentic_engine.py:533-562: after the last call of a round: step
\* counter, guidance message, next round or forced synthesis
EndOfRound(f) ==
    LET step == f.current_step + 1
        guide == IF step < f.plan_len
                 THEN GuidanceMsg(<<"Proceed", "to", "next", "step">>)
                 ELSE GuidanceMsg(<<"Synthesize", "no", "more", "tools">>)
    IN [f EXCEPT !.current_step = step,
                 !.appended = Append(@, guide),
                 !.round_num = @ + 1,
                 !.pc = IF f.round_num + 1 < MAX_AGENT_ROUNDS
                        THEN "react" ELSE "force_synthesis"]

\* the tool loop taking the calls of the round from the last to the first
AgenticToolLastFirst(f, outcome) ==
    LET tc == f.current_tool_calls[Len(f.current_tool_calls) - f.idx]
        g  == Yield(f, StatusChunk(<<"Calling", tc.name>>))
        h  == [g EXCEPT !.appended =
                            Append(@, ToolMsg(tc, AgenticResult(tc.name, outcome))),
                        !.executed = Append(@, Execution(tc, outcome, f)),
                        !.idx = @ + 1]
        k  == Yield(h, StatusChunk(<<tc.name, "ok">>))
    IN IF k.idx < Len(k.current_tool_calls) THEN k ELSE EndOfRound(k)

\* the tool loop appending no message for a failed call
AgenticToolSkipsFailed(f, outcome) ==
    LET tc == f.current_tool_calls[f.idx + 1]
        g  == Yield(f, StatusChunk(<<"Calling", tc.name>>))
        h  == [g EXCEPT !.appended =
                            IF outcome = "ok"
                            THEN Append(@, ToolMsg(tc, AgenticResult(tc.name, outcome)))
                            ELSE @,
                        !.executed = Append(@, Execution(tc, outcome, f)),
                        !.idx = @ + 1]
        k  == Yield(h, StatusChunk(<<tc.name, "ok">>))
    IN IF k.idx < Len(k.current_tool_calls) THEN k ELSE EndOfRound(k)

\* agentic_engine.py:491-531: one iteration of the tool loop
AgenticTool(f, outcome) ==
    LET tc == f.current_tool_calls[f.idx + 1]
        g  == Yield(f, StatusChunk(<<"Calling", tc.name>>))
        h  == [g EXCEPT !.appended =
                            Append(@, ToolMsg(tc, AgenticResult(tc.name, outcome))),
                        !.executed = Append(@, Execution(tc, outcome, f)),
                        !.idx = @ + 1]
        k  == Yield(h, StatusChunk(<<tc.name, "ok">>))
    IN IF k.idx < Len(k.current_tool_calls) THEN k ELSE EndOfRound(k)

ReactTool(t) ==
    /\ run[t].pc = "react_tool"
    /\ \E o \in ToolOutcomes(run[t].current_tool_calls[run[t].idx + 1].name) :
         Set(t, AgenticTool(run[t], o))
    /\ UNCHANGED <<db, nextUuid, turnsStarted, conv, cache, registry, mcp, ret, last_usage>>

\* agentic_engine.py:564-588: final synthesis without tools
ForceSynthesis(t) ==
    /\ run[t].pc = "force_synthesis"
    /\ Set(t, [Yield(Yield(run[t], StatusChunk(<<"Generating", "final", "answer">>)),
                     OutChunk(FullContent(TextStream), <<>>, TRUE))
               EXCEPT !.streams = @ + 1,
                      !.llm_calls = Append(@, StreamCall(run[t], <<>>)),
                      !.pc = "persist_agentic"])
    /\ UNCHANGED <<db, nextUuid, turnsStarted, conv, cache, registry, mcp, ret>>
    /\ last_usage' = Usage(run[t].turn, run[t].streams + 1)

ForceSynthesisFails(t) ==
    /\ run[t].pc = "force_synthesis"
    /\ Set(t, Raise([Yield(run[t], StatusChunk(<<"Generating", "final", "answer">>))
                     EXCEPT !.streams = @ + 1,
                            !.llm_calls = Append(@, StreamCall(run[t], <<>>))]))
    /\ UNCHANGED <<db, nextUuid, turnsStarted, conv, cache, registry, mcp, ret, last_usage>>

\* orchestrator.py:235-246: the only row the COMPLEX path writes
PersistAgentic(t) ==
    /\ run[t].pc = "persist_agentic"
    /\ Persist(t, TextMsg(run[t].agentic_content), EndOfTurnPc(run[t]))
    /\ UNCHANGED <<nextUuid, turnsStarted, conv, cache, registry, mcp, ret, last_usage>>

Agentic(t) ==
    \/ CreatePlan(t)
    \/ ExecuteStart(t)
    \/ ReactTimeout(t)
    \/ ReactRound(t)
    \/ ReactRoundFails(t)
    \/ ReactTool(t)
    \/ ForceSynthesis(t)
    \/ ForceSynthesisFails(t)
    \/ PersistAgentic(t)

(***************************************************************************)
(* ChatOrchestrator._summarize_conversation, awaited by run() after the    *)
(* answer row is written. Each step is one awaited call.                   *)
(***************************************************************************)
SummaryPcs == {"sum_fetch", "sum_llm", "sum_read", "sum_merge", "sum_write"}

\* orchestrator.py:433-440: the messages to summarize
SummaryFetch(t) ==
    /\ run[t].pc = "sum_fetch"
    /\ Set(t, [run[t] EXCEPT !.pc = "sum_llm",
                             !.sum_state = "running",
                             !.segment = SegmentToSummarize(db, run[t].current_seq,
                                             run[t].last_summarized_seq)])
    /\ UNCHANGED <<db, nextUuid, turnsStarted, conv, cache, registry, mcp, ret, last_usage>>

\* orchestrator.py:442-459: the provider summarizes the segment
SummaryComplete(t) ==
    /\ run[t].pc = "sum_llm"
    /\ Set(t, [run[t] EXCEPT !.pc = "sum_read", !.new_summary = run[t].segment])
    /\ UNCHANGED <<db, nextUuid, turnsStarted, conv, cache, registry, mcp, ret, last_usage>>

\* orchestrator.py:467-470: the stored summary is read again
SummaryReadOld(t) ==
    /\ run[t].pc = "sum_read"
    /\ Set(t, [run[t] EXCEPT !.old_summary = conv.summary,
                             !.pc = IF conv.summary # <<>> THEN "sum_merge"
                                    ELSE "sum_write"])
    /\ UNCHANGED <<db, nextUuid, turnsStarted, conv, cache, registry, mcp, ret, last_usage>>

\* orchestrator.py:470-483: the second provider call consolidates the two
SummaryMerge(t) ==
    /\ run[t].pc = "sum_merge"
    /\ Set(t, [run[t] EXCEPT !.pc = "sum_write"])
    /\ UNCHANGED <<db, nextUuid, turnsStarted, conv, cache, registry, mcp, ret, last_usage>>

\* the write-back storing one more than the sequence number reached
SummaryWriteAhead(t) ==
    /\ run[t].pc = "sum_write"
    /\ conv' = UpdateSummary(FinalSummary(run[t].old_summary, run[t].new_summary),
                             run[t].current_seq + 1)
    /\ Set(t, [run[t] EXCEPT !.pc = "done", !.sum_state = "stored",
                             !.sum_prev = conv])
    /\ UNCHANGED <<db, nextUuid, turnsStarted, cache, registry, mcp, ret, last_usage>>

\* orchestrator.py:484-489: update_summary(final_summary, current_seq)
SummaryWrite(t) ==
    /\ run[t].pc = "sum_write"
    /\ conv' = UpdateSummary(FinalSummary(run[t].old_summary, run[t].new_summary),
                             run[t].current_seq)
    /\ Set(t, [run[t] EXCEPT !.pc = "done", !.sum_state = "stored",
                             !.sum_prev = conv])
    /\ UNCHANGED <<db, nextUuid, turnsStarted, cache, registry, mcp, ret, last_usage>>

\* a failure of a summarization step leaving run() as an exception
SummaryFailsRaises(t) ==
    /\ run[t].pc \in SummaryPcs
    /\ Set(t, [Raise(run[t]) EXCEPT !.sum_state = "failed",
                                    !.sum_failed_at = run[t].pc])
    /\ UNCHANGED <<db, nextUuid, turnsStarted, conv, cache, registry, mcp, ret, last_usage>>

\* orchestrator.py:491-492: any step raised; the exception is logged and
\* run() goes on to its end
SummaryFails(t) ==
    /\ run[t].pc \in SummaryPcs
    /\ Set(t, [run[t] EXCEPT !.pc = "done", !.sum_state = "failed",
                             !.sum_failed_at = run[t].pc])
    /\ UNCHANGED <<db, nextUuid, turnsStarted, conv, cache, registry, mcp, ret, last_usage>>

Summarize(t) ==
    \/ SummaryFetch(t)
    \/ SummaryComplete(t)
    \/ SummaryReadOld(t)
    \/ SummaryMerge(t)
    \/ SummaryWrite(t)
    \/ SummaryFails(t)

\* the steps of run() after the route has called it
RunStep(t) ==
    \/ Compose(t)
    \/ OneShot(t)
    \/ Agentic(t)

Next ==
    \E t \in SeqTasks :
        \/ StartTurn(t)
        \/ FetchHistory(t)
        \/ RunStep(t)

Spec == Init /\ [][Next]_vars

\* interleaved turns; the steps of the agentic engine are left out, so a
\* turn routed to it stays suspended at its planner call
NextConc ==
    \E t \in Tasks :
        \/ StartTurnConc(t)
        \/ FetchHistory(t)
        \/ Compose(t)
        \/ OneShot(t)

SpecConc == InitConc /\ [][NextConc]_vars

\* two turns on a new conversation, the second after the first has ended
NextRetry ==
    \E t \in Tasks :
        \/ StartTurnRetry(t)
        \/ FetchHistory(t)
        \/ RunStep(t)

SpecRetry == InitConc /\ [][NextRetry]_vars

\* a turn whose model keeps asking for one tool per round: more calls than
\* the executor has rounds
RoundsBudget == MAX_AGENT_ROUNDS + 2

StartTurnRounds(t) ==
    /\ \A u \in Tasks : Finished(u)
    /\ BeginTurn(t, RoundsBudget)

\* the responses of such a model: an answer, or one call of the tool
RoundStreams(f) ==
    IF f.issued < f.budget
    THEN {TextStream, StructuredStream(<<"git_status">>)}
    ELSE {TextStream}

\* agentic_engine.py:441-489 with these responses
ReactRoundLong(t) ==
    /\ run[t].pc = "react"
    /\ \E s \in RoundStreams(run[t]) :
         /\ Set(t, AfterReactStream(run[t], s, nextUuid))
         /\ nextUuid' = nextUuid + Len(FallbackCalls(run[t], s, nextUuid))
    /\ UNCHANGED <<db, turnsStarted, conv, cache, registry, mcp, ret>>
    /\ last_usage' = IF run'[t].pc = "persist_agentic"
                     THEN Usage(run[t].turn, run[t].streams + 1)
                     ELSE last_usage

\* the executor when every provider stream and every tool call returns
NextRounds ==
    \E t \in SeqTasks :
        \/ StartTurnRounds(t)
        \/ FetchHistory(t)
        \/ Compose(t)
        \/ CreatePlan(t)
        \/ ExecuteStart(t)
        \/ ReactTimeout(t)
        \/ ReactRoundLong(t)
        \/ ReactTool(t)
        \/ ForceSynthesis(t)
        \/ PersistAgentic(t)

\* the event loop resumes a task whose awaited call has returned
SpecRounds == InitConc /\ [][NextRounds]_vars /\ WF_vars(NextRounds)

(***************************************************************************)
(* Turns of a signed-in user on a conversation long enough to be           *)
(* summarized: answers without tools, context cache and summarization.     *)
(***************************************************************************)
\* turns already in the shorter conversation these turns start from: the
\* next answer is its 20th message
ShortPrefill == 9

InitMemory ==
    /\ \E k \in {ShortPrefill, MaxPrefillTurns} : StartFrom(k)
    /\ run = InitFrames
    /\ nextUuid = 0
    /\ turnsStarted = 0

\* the route with a user id and one of the texts
BeginTurnMemory(t) ==
    /\ run[t].pc = "idle"
    /\ db' = AddMessage(db, turnsStarted + 1, NextSequenceNumber(db),
                        UserMsg(turnsStarted + 1))
    /\ turnsStarted' = turnsStarted + 1
    /\ \E txt \in UserTexts :
         Set(t, [IdleFrame EXCEPT !.pc = "history", !.turn = turnsStarted + 1,
                                  !.user_id = TRUE, !.user_text = txt])
    /\ UNCHANGED <<nextUuid, conv, cache, registry, mcp, ret, last_usage>>

StartTurnMemory(t) ==
    /\ \A u \in Tasks : Finished(u)
    /\ BeginTurnMemory(t)

\* a turn whose model calls no tool (budget 0), with every step of the
\* composition and of the summarization; a turn dispatched to the agentic
\* engine stays suspended at its planner call
MemoryStep(t) ==
    \/ FetchHistory(t)
    \/ Compose(t)
    \/ FetchSummaryFails(t)
    \/ StreamFirst(t)
    \/ PersistFinal(t)
    \/ Summarize(t)

NextMemory ==
    \E t \in Tasks :
        \/ StartTurnMemory(t)
        \/ MemoryStep(t)

SpecMemory == InitMemory /\ [][NextMemory]_vars

\* a turn of a concurrent request without a user id, its model calling
\* no tool
StartTurnMemoryConc(t) == BeginTurn(t, 0)

\* such turns interleaved
NextMemoryConc ==
    \E t \in Tasks :
        \/ StartTurnMemoryConc(t)
        \/ MemoryStep(t)

InitMemoryConc ==
    /\ StartFrom(ShortPrefill)
    /\ run = InitFrames
    /\ nextUuid = 0
    /\ turnsStarted = 0

SpecMemoryConc == InitMemoryConc /\ [][NextMemoryConc]_vars

(***************************************************************************)
(* ConversationRepository.get_recent_messages on its own: called with any  *)
(* limit on any small conversation, and on the conversation of             *)
(* scripts/verify_observability.py.                                        *)
(***************************************************************************)
MaxRows == 4
MaxSeqNo == 3
MaxLimit == 5

\* the rows of a conversation whose i-th persisted message has
\* sequence_number seqs[i]; the table has no unique constraint on it
StoredRows(seqs) ==
    [i \in DOMAIN seqs |-> Row(i, seqs[i], TextMsg(<<"Message", seqs[i]>>))]

SmallConversations ==
    {StoredRows(seqs) : seqs \in UNION {[1..n -> 0..MaxSeqNo] : n \in 0..MaxRows}}

\* verify_observability.py:31-40: 60 messages numbered 0..59
SCRIPT_MESSAGES == 60
ScriptConversation == StoredRows([i \in 1..SCRIPT_MESSAGES |-> i - 1])

InitWindow ==
    /\ db \in SmallConversations \cup {ScriptConversation}
    /\ conv = NoSummary
    /\ cache = NoCache
    /\ registry = NewRegistry
    /\ mcp = NewMcp
    /\ ret = NoRet
    /\ last_usage = NoUsage
    /\ run = InitFrames
    /\ nextUuid = 0
    /\ turnsStarted = 0

GetRecentMessages(limit) ==
    /\ ret' = [op |-> "get_recent_messages", limit |-> limit,
               value |-> RecentMessages(db, limit)]
    /\ UNCHANGED <<db, run, nextUuid, turnsStarted, conv, cache, registry, mcp, last_usage>>

NextWindow == \E limit \in 0..MaxLimit \cup {HISTORY_WINDOW} : GetRecentMessages(limit)

SpecWindow == InitWindow /\ [][NextWindow]_vars

(***************************************************************************)
(* tools/registry.py: ToolRegistry.  A tool name is the sequence of the    *)
(* words that "_" joins (git_status is <<"git", "status">>); no word of    *)
(* the model is part of another, so `word in name` is membership.          *)
(***************************************************************************)
Words(name) == {name[i] : i \in DOMAIN name}

\* a tool object: a local MCPTool with its implementation, or a
\* RemoteMCPTool with its client; to_ollama_format() describes it by name
LocalTool(name, impl) == [kind |-> "local", name |-> name, by |-> impl]
RemoteTool(name, client) == [kind |-> "remote", name |-> name, by |-> client]
\* raise ValueError(f"Tool {name} not found") / "already registered"
ToolError(name) == [kind |-> "error", name |-> name, by |-> "ValueError"]

\* the names of the tools of a dict kept as the list of its values
Names(tools) == {tools[i].name : i \in DOMAIN tools}

\* d[name], for a name in d
Lookup(d, name) == d[CHOOSE i \in DOMAIN d : d[i].name = name]

\* d[tool.name] = tool: a new key goes last, a known key keeps its place
DictPut(d, tool) ==
    IF tool.name \in Names(d)
    THEN [i \in DOMAIN d |-> IF d[i].name = tool.name THEN tool ELSE d[i]]
    ELSE Append(d, tool)

\* the registry raising on a name that is already local, caring for
\* nothing else
RegisterOverwrites(r, tool) ==
    [registry |-> [r EXCEPT !.tools = DictPut(r.tools, tool)],
     value |-> tool]

\* registry.py:42-46
Register(r, tool) ==
    IF tool.name \in Names(r.tools)
    THEN [registry |-> r, value |-> ToolError(tool.name)]
    ELSE [registry |-> [r EXCEPT !.tools = Append(r.tools, tool)],
          value |-> tool]

\* the lookup asking the remote cache first
GetToolRemoteFirst(r, name) ==
    IF name \in Names(r.remote) THEN Lookup(r.remote, name)
    ELSE IF name \in Names(r.tools) THEN Lookup(r.tools, name)
    ELSE ToolError(name)

\* registry.py:52-60
GetTool(r, name) ==
    IF name \in Names(r.tools) THEN Lookup(r.tools, name)
    ELSE IF name \in Names(r.remote) THEN Lookup(r.remote, name)
    ELSE ToolError(name)

\* str.upper() of a client name, str.lower() of a category
Upper(w) == CASE w = "git" -> "GIT"
              [] w = "filesystem" -> "FILESYSTEM"
              [] w = "general" -> "GENERAL"
              [] w = "intent:" -> "INTENT:"
              [] OTHER -> w
Lower(w) == CASE w = "GIT" -> "git"
              [] w = "FILESYSTEM" -> "filesystem"
              [] w = "GENERAL" -> "general"
              [] OTHER -> w

RECURSIVE Categories(_, _)
\* registry.py:89-95: get_categories, from the list acc on
Categories(clients, acc) ==
    IF clients = <<>> THEN acc
    ELSE LET c == Upper(Head(clients))
         IN Categories(Tail(clients),
                       IF \E i \in DOMAIN acc : acc[i] = c THEN acc
                       ELSE Append(acc, c))

GetCategories(r) == Categories(r.clients, <<"GENERAL">>)

\* registry.py:97-113: the descriptors of the local tools for GENERAL,
\* of the cached remote tools of the client of that name otherwise
GetToolsByCategory(r, category) ==
    IF Upper(category) = "GENERAL" THEN r.tools
    ELSE LET OfCategory(tool) == Upper(tool.by) = Upper(category)
         IN SelectSeq(r.remote, OfCategory)

RECURSIVE PutAll(_, _)
\* registry.py:73-84: every tool of a list goes into the cache
PutAll(d, tools) ==
    IF tools = <<>> THEN d
    ELSE PutAll(DictPut(d, Head(tools)), Tail(tools))

\* the tools the servers offer
GitToolNames ==
    << <<"git", "status">>, <<"git", "diff">>, <<"git", "log">>,
       <<"git", "add">>, <<"git", "commit">>, <<"git", "branch">> >>
FilesystemToolNames ==
    << <<"read", "file">>, <<"write", "file">>, <<"search", "file">> >>

ClientNames == {"git", "filesystem"}

Offered(client) ==
    LET names == IF client = "git" THEN GitToolNames ELSE FilesystemToolNames
    IN [i \in DOMAIN names |-> RemoteTool(names[i], client)]

\* client.list_tools(): the descriptors of the server, or [] when the
\* server cannot be reached (an exception is logged and reads the same)
ListedBy(client) == {Offered(client), <<>>}

\* local tools an application registers
LocalCandidates ==
    {LocalTool(<<"get", "time">>, "v1"),
     LocalTool(<<"git", "status">>, "v1"),
     LocalTool(<<"git", "status">>, "v2")}

MaxClients == 2

InitRegistry ==
    /\ db = <<>>
    /\ conv = NoSummary
    /\ cache = NoCache
    /\ registry = NewRegistry
    /\ mcp = NewMcp
    /\ ret = NoRet
    /\ last_usage = NoUsage
    /\ run = InitFrames
    /\ nextUuid = 0
    /\ turnsStarted = 0

\* a call on the registry leaves everything else alone
RegistryOnly == UNCHANGED <<db, run, nextUuid, turnsStarted, conv, cache, mcp, last_usage>>

RegisterCall(tool) ==
    /\ registry' = Register(registry, tool).registry
    /\ ret' = [op |-> "register", arg |-> tool,
               value |-> Register(registry, tool).value]
    /\ RegistryOnly

\* registry.py:48-50
RegisterMcpClient(client) ==
    /\ Len(registry.clients) < MaxClients
    /\ registry' = [registry EXCEPT !.clients = Append(@, client)]
    /\ ret' = [op |-> "register_mcp_client", arg |-> client, value |-> client]
    /\ RegistryOnly

\* registry.py:66-72: the cache is cleared, then the first client is
\* awaited; with no client the refresh is over
RefreshBegin ==
    /\ registry.refreshing = 0
    /\ registry' = [registry EXCEPT
                       !.remote = <<>>,
                       !.before = registry.remote,
                       !.refreshing = IF registry.clients = <<>> THEN 0 ELSE 1]
    /\ ret' = [op |-> "refresh", arg |-> "begin", value |-> "None"]
    /\ RegistryOnly

\* registry.py:72-87: list_tools of the awaited client returns, its tools
\* are put into the cache, and the next client is awaited
RefreshListed ==
    /\ registry.refreshing > 0
    /\ \E listed \in ListedBy(registry.clients[registry.refreshing]) :
         registry' = [registry EXCEPT
                        !.remote = PutAll(@, listed),
                        !.refreshing = IF @ < Len(registry.clients)
                                       THEN @ + 1 ELSE 0]
    /\ ret' = [op |-> "refresh", arg |-> "listed", value |-> "None"]
    /\ RegistryOnly

\* names a caller asks for
AskedNames ==
    {<<"git", "status">>, <<"get", "time">>, <<"read", "file">>, <<"bogus">>}

GetToolCall(name) ==
    /\ ret' = [op |-> "get_tool", arg |-> name, value |-> GetTool(registry, name)]
    /\ UNCHANGED registry
    /\ RegistryOnly

AskedCategories == {"GENERAL", "GIT", "FILESYSTEM", "git"}

GetToolsByCategoryCall(category) ==
    /\ ret' = [op |-> "get_tools_by_category", arg |-> category,
               value |-> GetToolsByCategory(registry, category)]
    /\ UNCHANGED registry
    /\ RegistryOnly

\* registrations, refreshes and lookups in any order; a lookup may come
\* from another task while a refresh is suspended
NextRegistry ==
    \/ \E tool \in LocalCandidates : RegisterCall(tool)
    \/ \E client \in ClientNames : RegisterMcpClient(client)
    \/ RefreshBegin
    \/ RefreshListed
    \/ \E name \in AskedNames : GetToolCall(name)
    \/ \E category \in AskedCategories : GetToolsByCategoryCall(category)

SpecRegistry == InitRegistry /\ [][NextRegistry]_vars

(***************************************************************************)
(* tools/mcp_client.py: MCPClient with database/redis.py: RedisClient.     *)
(* One call of list_tools or call_tool is one step; what the server and    *)
(* the subprocess do is chosen by the step.                                *)
(***************************************************************************)
\* Python values a call returns
PyNone == <<"none", "">>
PyStr(text) == <<"str", text>>
PyInt(digits) == <<"int", digits>>
PyList(items) == <<"list", items>>
PyDict(items) == <<"dict", items>>
PyRaise(what) == <<"raise", what>>

\* bool(value)
Truthy(v) ==
    CASE v[1] = "none" -> FALSE
      [] v[1] = "str" -> v[2] # ""
      [] v[1] = "int" -> v[2] # "0"
      [] v[1] = "list" -> v[2] # <<>>
      [] v[1] = "dict" -> v[2] # <<>>
      [] OTHER -> TRUE

\* redis.py:57: a str is stored as it is, anything else as its JSON: the
\* digits of a number, the text of a list ("json") or of an object
Serialized(v) ==
    CASE v[1] = "str" -> <<"text", v[2]>>
      [] v[1] = "int" -> <<"text", v[2]>>
      [] v[1] = "none" -> <<"text", "null">>
      [] v[1] = "dict" -> <<"json_object", v[2]>>
      [] OTHER -> <<"json", v[2]>>

\* texts a tool answers with: "7" is JSON, "ok" is not
ResultTexts == {"", "ok", "7"}

\* redis.py:41-47: nothing or an empty string is None; a value that is
\* JSON is decoded; any other text is returned as it is
Loaded(entry) ==
    IF entry = Absent THEN PyNone
    ELSE IF entry[1] = "json" THEN PyList(entry[2])
    ELSE IF entry[1] = "json_object" THEN PyDict(entry[2])
    ELSE IF entry[2] = "" THEN PyNone
    ELSE IF entry[2] \in {"7", "0"} THEN PyInt(entry[2])
    ELSE IF entry[2] = "null" THEN PyNone
    ELSE PyStr(entry[2])

\* redis.py:36-50 without the try of line 40: the error of the store
\* reaches the caller
RedisGetRaises(m, entry) ==
    IF m.redis = "none" THEN PyNone
    ELSE IF m.redis = "raising" THEN PyRaise("redis")
    ELSE Loaded(entry)

\* redis.py:36-50: None without a connection (38-39) and when the store
\* raises (48-50)
RedisGet(m, entry) ==
    IF m.redis = "none" THEN PyNone
    ELSE IF m.redis = "raising" THEN PyNone
    ELSE Loaded(entry)

\* argument mappings, as the key/value pairs in the order of the dict
ArgMaps ==
    {<<>>,
     << <<"a", "1">>, <<"b", "2">> >>,
     << <<"b", "2">>, <<"a", "1">> >>,
     << <<"a", "2">> >>}

\* the keys of the model in sorting order
KeyRank(k) == IF k = "a" THEN 1 ELSE 2

RECURSIVE InsertByKey(_, _)
InsertByKey(pair, sorted) ==
    IF sorted = <<>> THEN <<pair>>
    ELSE IF KeyRank(pair[1]) < KeyRank(Head(sorted)[1]) THEN <<pair>> \o sorted
    ELSE <<Head(sorted)>> \o InsertByKey(pair, Tail(sorted))

RECURSIVE SortKeys(_)
\* mcp_client.py:116: json.dumps(arguments, sort_keys=True)
SortKeys(args) ==
    IF args = <<>> THEN <<>>
    ELSE InsertByKey(Head(args), SortKeys(Tail(args)))

\* mcp_client.py:116-118: tool:{client}:{name}:{md5 of the sorted JSON};
\* different texts are taken to have different digests
CacheKey(client, name, args) == <<"tool", client, name, SortKeys(args)>>

\* results[key], Absent without it
EntryAt(results, key) ==
    IF \E i \in DOMAIN results : results[i].key = key
    THEN results[CHOOSE i \in DOMAIN results : results[i].key = key].value
    ELSE Absent

\* the value set under the key and still there, PyRaise("nothing") without
EntryOf(results, key) ==
    IF \E i \in DOMAIN results : results[i].key = key
    THEN results[CHOOSE i \in DOMAIN results : results[i].key = key].of
    ELSE PyRaise("nothing")

\* SET key value EX ttl; "of" remembers the value that was serialized
WithEntry(results, key, value, of) ==
    IF \E i \in DOMAIN results : results[i].key = key
    THEN [i \in DOMAIN results |->
            IF results[i].key = key
            THEN [key |-> key, value |-> value, of |-> of]
            ELSE results[i]]
    ELSE Append(results, [key |-> key, value |-> value, of |-> of])

\* DEL key
WithoutEntry(results, key) ==
    SelectSeq(results, LAMBDA e : e.key # key)

\* redis.py:52-60: nothing without a connection (54-55) and when the store
\* raises (59-60)
RedisSet(m, key, v) ==
    IF m.redis = "up"
    THEN [m EXCEPT !.results = WithEntry(@, key, Serialized(v), v)]
    ELSE m

\* redis.py:62-69
RedisDelete(m, key) ==
    IF m.redis = "up"
    THEN [m EXCEPT !.results = WithoutEntry(@, key)]
    ELSE m

\* mcp_client.py:35-53: connect() succeeds, or raises at line 44 (the
\* subprocess cannot be started), at line 45 (the session) or at line 46
\* (the initialize handshake)
ConnectOutcomes ==
    {"connected", "spawn_failed", "session_failed", "initialize_failed"}

\* the connect started a subprocess
Spawns(outcome) == IF outcome = "spawn_failed" THEN 0 ELSE 1

\* AsyncExitStack.aclose() of the stack: its subprocess is terminated
Aclose(children, stack) ==
    [i \in DOMAIN children |-> IF i = stack THEN FALSE ELSE children[i]]

\* mcp_client.py:35-53: line 41 makes the new stack; on success the
\* subprocess runs and the session is live; on a failure the except branch
\* closes the stack and clears self._exit_stack, and self.session keeps
\* what line 45 assigned
Connect(m, stack, outcome) ==
    IF outcome = "connected"
    THEN [m EXCEPT !.exit_stack = stack, !.session = "live",
                   !.session_in = stack, !.children[stack] = TRUE]
    ELSE [m EXCEPT !.exit_stack = 0,
                   !.session = IF outcome = "initialize_failed"
                               THEN "closed" ELSE @,
                   !.session_in = IF outcome = "initialize_failed"
                                  THEN stack ELSE @,
                   !.children = Aclose(@, stack)]

\* what the server does with a request: answers or fails
ListAnswers == {PyList(GitToolNames), PyList(<<>>), PyRaise("server")}
CallAnswers == {PyStr(text) : text \in ResultTexts} \cup {PyRaise("server")}

\* the record of one call: the value returned or the exception raised,
\* the outcome of the connect it attempted, the subprocesses it started and
\* the requests it sent
Returned(op, arg, entry, value, connect, spawned, sent) ==
    [op |-> op, arg |-> arg, entry |-> entry, value |-> value,
     connect |-> connect, spawned |-> spawned, sent |-> sent]

\* mcp_client.py:55-95
ListTools(m, connect, answer) ==
    LET attempted == m.session = "none"
        spawned == IF attempted THEN Spawns(connect) ELSE 0
        m1 == IF attempted THEN Connect(m, 1, connect) ELSE m
        cached == RedisGet(m1, m1.tools_entry)
        tried == IF attempted THEN connect ELSE "not_attempted"
        Out(m2, value, sent) ==
            [mcp |-> m2, value |-> value, connect |-> tried,
             spawned |-> spawned, sent |-> sent]
    IN IF attempted /\ connect # "connected"
       THEN Out(m1, PyList(<<>>), 0)
       ELSE IF Truthy(cached)
       THEN Out(m1, cached, 0)
       ELSE IF m1.session = "closed"
       THEN Out(m1, PyList(<<>>), 0)
       ELSE IF answer[1] = "raise"
       THEN Out(m1, PyList(<<>>), 1)
       ELSE Out(IF m1.redis = "up"
                THEN [m1 EXCEPT !.tools_entry = Serialized(answer)] ELSE m1,
                answer, 1)

\* mcp_client.py:97-145
CallTool(m, name, args, connect, answer) ==
    LET attempted == m.session = "none"
        spawned == IF attempted THEN Spawns(connect) ELSE 0
        m1 == IF attempted THEN Connect(m, 1, connect) ELSE m
        key == CacheKey("git", name, args)
        cached == RedisGet(m1, EntryAt(m1.results, key))
        tried == IF attempted THEN connect ELSE "not_attempted"
        Out(m2, value, sent) ==
            [mcp |-> m2, value |-> value, connect |-> tried,
             spawned |-> spawned, sent |-> sent]
    IN IF attempted /\ connect # "connected"
       THEN Out(m1, PyRaise("connect"), 0)
       ELSE IF Truthy(cached)
       THEN Out(m1, cached, 0)
       ELSE IF m1.session = "closed"
       THEN Out(m1, PyRaise("closed"), 0)
       ELSE IF answer[1] = "raise"
       THEN Out(m1, answer, 1)
       ELSE Out(RedisSet(m1, key, answer), answer, 1)

\* mcp_client.py:147-152
CloseClient(m) ==
    IF m.exit_stack # 0
    THEN [m EXCEPT !.children = Aclose(@, m.exit_stack),
                   !.exit_stack = 0, !.session = "none", !.session_in = 0]
    ELSE m

InitMcp ==
    /\ db = <<>>
    /\ conv = NoSummary
    /\ cache = NoCache
    /\ registry = NewRegistry
    /\ \E store \in {"up", "none"} : mcp = [NewMcp EXCEPT !.redis = store]
    /\ ret = NoRet
    /\ last_usage = NoUsage
    /\ run = InitFrames
    /\ nextUuid = 0
    /\ turnsStarted = 0

\* a call on the client leaves everything else alone
McpOnly == UNCHANGED <<db, run, nextUuid, turnsStarted, conv, cache, registry, last_usage>>

ListToolsCall ==
    /\ \E connect \in ConnectOutcomes, answer \in ListAnswers :
         LET out == ListTools(mcp, connect, answer)
         IN /\ mcp' = out.mcp
            /\ ret' = Returned("list_tools", <<>>, mcp.tools_entry, out.value,
                               out.connect, out.spawned, out.sent)
    /\ McpOnly

CalledTools == {"git_status"}

CallToolCall(name, args) ==
    /\ \E connect \in ConnectOutcomes, answer \in CallAnswers :
         LET out == CallTool(mcp, name, args, connect, answer)
         IN /\ mcp' = out.mcp
            /\ ret' = Returned("call_tool", [name |-> name, args |-> args],
                               EntryAt(mcp.results, CacheKey("git", name, args)),
                               out.value, out.connect, out.spawned, out.sent)
    /\ McpOnly

\* mcp_client.py:147-152
Close ==
    /\ mcp' = CloseClient(mcp)
    /\ ret' = [op |-> "close"]
    /\ McpOnly

\* the TTL of the entries runs out: 30 minutes for the tool list, 60 s for
\* the results of the client git
Expire ==
    /\ mcp' = [mcp EXCEPT !.tools_entry = Absent, !.results = <<>>]
    /\ ret' = [op |-> "expire"]
    /\ McpOnly

NextMcp ==
    \/ ListToolsCall
    \/ \E name \in CalledTools, args \in ArgMaps : CallToolCall(name, args)
    \/ Close
    \/ Expire

SpecMcp == InitMcp /\ [][NextMcp]_vars

(***************************************************************************)
(* database/redis.py: RedisClient called directly, next to the calls the   *)
(* MCP client makes through it, with a store that may raise.               *)
(***************************************************************************)
\* the key of tests/test_redis.py
RedisKeys == {<<"test_key">>}

\* JSON-serializable values: strings (empty, plain, one whose text is JSON),
\* a number, lists and objects
RedisValues ==
    {PyStr(""), PyStr("ok"), PyStr("7"), PyInt("0"), PyList(<<>>),
     PyDict(<<>>), PyDict(<< <<"foo", "bar">> >>)}

\* the record of one call of the RedisClient: what it returned, the value
\* that was set under the key and in force, and the state of the store
Answered(op, key, value) ==
    [op |-> op, key |-> key, value |-> value,
     was |-> EntryOf(mcp.results, key), redis |-> mcp.redis]

\* redis.py:52-60
SetCall(key, v) ==
    /\ mcp' = RedisSet(mcp, key, v)
    /\ ret' = Answered("set", key, PyNone)
    /\ McpOnly

\* redis.py:36-50
GetCall(key) ==
    /\ mcp' = mcp
    /\ ret' = Answered("get", key, RedisGet(mcp, EntryAt(mcp.results, key)))
    /\ McpOnly

\* redis.py:62-69
DeleteCall(key) ==
    /\ mcp' = RedisDelete(mcp, key)
    /\ ret' = Answered("delete", key, PyNone)
    /\ McpOnly

\* the store starts or stops raising on every operation
Outage ==
    /\ mcp.redis # "none"
    /\ mcp' = [mcp EXCEPT !.redis = IF @ = "up" THEN "raising" ELSE "up"]
    /\ ret' = [op |-> "outage"]
    /\ McpOnly

NextRedis ==
    \/ \E key \in RedisKeys, v \in RedisValues : SetCall(key, v)
    \/ \E key \in RedisKeys : GetCall(key)
    \/ \E key \in RedisKeys : DeleteCall(key)
    \/ Outage
    \/ Expire
    \/ ListToolsCall
    \/ \E name \in CalledTools : CallToolCall(name, <<>>)
    \/ Close

SpecRedis == InitMcp /\ [][NextRedis]_vars

(***************************************************************************)
(* Two tasks on one MCPClient: list_tools and call_tool step by step, one  *)
(* step from an await to the next.                                         *)
(***************************************************************************)
\* the operations the tasks run
ClientOps == {"list_tools", "call_tool"}

\* the arguments of the calls of the tasks
ConcArgs == <<>>

\* the task's operation ends with the value
Ended(m, t, value) ==
    [m EXCEPT !.ops[t].pc = "done", !.ops[t].value = value]

\* what the operation does with an exception: list_tools returns [],
\* call_tool raises (mcp_client.py:61-62, 93-95, 143-145)
Failure(m, t, what) ==
    IF m.ops[t].op = "list_tools" THEN PyList(<<>>) ELSE PyRaise(what)

\* mcp_client.py:48-53: the except branch of connect closes the stack
\* self._exit_stack names at that time and clears the field; a live session
\* entered into that stack is closed with it
ConnectExcept(m, t) ==
    LET stack == m.exit_stack
        m1 == IF stack = 0 THEN m
              ELSE [m EXCEPT !.children = Aclose(@, stack),
                             !.session = IF m.session_in = stack /\ @ = "live"
                                         THEN "closed" ELSE @]
    IN Ended([m1 EXCEPT !.exit_stack = 0], t, Failure(m, t, "connect"))

\* mcp_client.py:57-60, 99-100, 37-44: the operation starts; without a
\* session it calls connect, which makes a new exit stack and awaits the
\* start of the subprocess
OpStart(t, op) ==
    /\ mcp.ops[t].pc = "idle"
    /\ mcp' = IF mcp.session = "none"
              THEN [mcp EXCEPT !.ops[t].op = op, !.ops[t].pc = "spawn",
                               !.ops[t].connects = @ + 1, !.exit_stack = t]
              ELSE [mcp EXCEPT !.ops[t].op = op, !.ops[t].pc = "get"]
    /\ ret' = NoRet
    /\ McpOnly

\* mcp_client.py:44: the subprocess started, in the stack of this connect,
\* or could not be started
ConnectSpawn(t) ==
    /\ mcp.ops[t].pc = "spawn"
    /\ \E ok \in BOOLEAN :
         mcp' = IF ok
                THEN [mcp EXCEPT !.children[t] = TRUE, !.ops[t].pc = "session"]
                ELSE ConnectExcept(mcp, t)
    /\ ret' = NoRet
    /\ McpOnly

\* mcp_client.py:45: the session is entered into the stack self._exit_stack
\* names now and assigned to self.session; it fails when the field was
\* cleared meanwhile
ConnectSession(t) ==
    /\ mcp.ops[t].pc = "session"
    /\ \E ok \in BOOLEAN :
         mcp' = IF ok /\ mcp.exit_stack # 0
                THEN [mcp EXCEPT !.session = "live",
                                 !.session_in = mcp.exit_stack,
                                 !.ops[t].pc = "initialize"]
                ELSE ConnectExcept(mcp, t)
    /\ ret' = NoRet
    /\ McpOnly

\* mcp_client.py:46: the initialize handshake
ConnectInitialize(t) ==
    /\ mcp.ops[t].pc = "initialize"
    /\ \E ok \in BOOLEAN :
         mcp' = IF ok /\ mcp.session = "live"
                THEN [mcp EXCEPT !.ops[t].pc = "get"]
                ELSE ConnectExcept(mcp, t)
    /\ ret' = NoRet
    /\ McpOnly

\* the entry the operation of the task reads
EntryRead(m, t) ==
    IF m.ops[t].op = "list_tools" THEN m.tools_entry
    ELSE EntryAt(m.results, CacheKey("git", "git_status", ConcArgs))

\* mcp_client.py:68-74, 121-127: the cache is read; a hit returns, a miss
\* writes the request to the session
CacheRead(t) ==
    /\ mcp.ops[t].pc = "get"
    /\ LET cached == RedisGet(mcp, EntryRead(mcp, t))
       IN mcp' = IF Truthy(cached) THEN Ended(mcp, t, cached)
                 ELSE IF mcp.session # "live"
                 THEN Ended(mcp, t, Failure(mcp, t, "closed"))
                 ELSE [mcp EXCEPT !.ops[t].pc = "awaiting"]
    /\ ret' = NoRet
    /\ McpOnly

\* mcp_client.py:74-92, 127-142: the response to the request of the task
\* arrives, or the request fails; a result is stored and returned
Respond(t) ==
    /\ mcp.ops[t].pc = "awaiting"
    /\ \E answer \in IF mcp.ops[t].op = "list_tools"
                      THEN ListAnswers ELSE CallAnswers :
         mcp' = IF answer[1] = "raise" \/ mcp.session # "live"
                THEN Ended(mcp, t, Failure(mcp, t, "server"))
                ELSE IF mcp.ops[t].op = "list_tools"
                THEN Ended(IF mcp.redis = "up"
                           THEN [mcp EXCEPT !.tools_entry = Serialized(answer)]
                           ELSE mcp, t, answer)
                ELSE Ended(RedisSet(mcp,
                               CacheKey("git", "git_status", ConcArgs), answer),
                           t, answer)
    /\ ret' = NoRet
    /\ McpOnly

\* mcp_client.py:147-152, called while operations run
CloseConc ==
    /\ mcp' = CloseClient(mcp)
    /\ ret' = [op |-> "close"]
    /\ McpOnly

ClientStep(t) ==
    \/ \E op \in ClientOps : OpStart(t, op)
    \/ ConnectSpawn(t)
    \/ ConnectSession(t)
    \/ ConnectInitialize(t)
    \/ CacheRead(t)
    \/ Respond(t)

NextMcpConc ==
    \/ \E t \in Tasks : ClientStep(t)
    \/ CloseConc

SpecMcpConc == InitMcp /\ [][NextMcpConc]_vars

(***************************************************************************)
(* Tool selection: ToolRegistry.get_ollama_tools with                      *)
(* ChatOrchestrator._filter_tools (SIMPLE), AgenticEngine.get_expanded_tools*)
(* and _expand_tools_midloop (COMPLEX).  A query or a reasoning text is    *)
(* the set of its lower-case words.                                        *)
(***************************************************************************)
\* `a in b` for two words: a is a part of b
Within(a, b) ==
    \/ a = b
    \/ <<a, b>> \in {<<"read", "reading">>, <<"file", "filesystem">>,
                     <<"COMPLEX", "COMPLEXITY:">>,
                     <<"COMPLEXITY", "COMPLEXITY:">>, <<"GIT", "GITHUB">>}

\* `word in text` for a text of words separated by blanks or "_"
OccursIn(word, text) == \E w \in text : Within(word, w)

\* registry.py:117
MAX_TOOLS == 8
\* agentic_engine.py:28
MAX_TOOLS_AGENTIC == 8

RECURSIVE Flatten(_)
\* list.extend over a list of lists
Flatten(lists) ==
    IF lists = <<>> THEN <<>> ELSE Head(lists) \o Flatten(Tail(lists))

RECURSIVE Unique(_, _)
\* the `seen` loops: the first tool of every name, in order
Unique(tools, seen) ==
    IF tools = <<>> THEN <<>>
    ELSE IF Head(tools).name \in seen THEN Unique(Tail(tools), seen)
    ELSE <<Head(tools)>> \o Unique(Tail(tools), seen \cup {Head(tools).name})

\* tools[:n]
Take(tools, n) == SubSeq(tools, 1, Min(n, Len(tools)))

\* registry.py:128-136: the tools of every category named in the query
PriorityTools(r, q) ==
    LET cats == GetCategories(r)
        Named(cat) == cat # "GENERAL" /\ OccursIn(Lower(cat), q)
        named == SelectSeq(cats, Named)
    IN Flatten([i \in DOMAIN named |-> GetToolsByCategory(r, named[i])])

\* registry.py:145-157: tools no query word names and no category brought
\* in, whose name has read, write or search as the query has
KeywordMatches(r, q) ==
    LET priority == PriorityTools(r, q)
        Matches(tool) ==
            /\ ~(\E t \in q : OccursIn(t, Words(tool.name)))
            /\ tool.name \notin Names(priority)
            /\ \E k \in {"read", "write", "search"} :
                 OccursIn(k, q) /\ OccursIn(k, Words(tool.name))
    IN SelectSeq(r.tools \o r.remote, Matches)

\* registry.py:115-166
GetOllamaTools(r, q) ==
    IF q = {} THEN <<>>
    ELSE Take(Unique(PriorityTools(r, q) \o KeywordMatches(r, q), {}), MAX_TOOLS)

\* orchestrator.py:576-581: the names an intent keeps
KeptBy(intent, name) ==
    CASE intent = "GIT" -> \E k \in {"git", "repo"} : OccursIn(k, Words(name))
      [] intent = "FILESYSTEM" ->
            \E k \in {"file", "dir", "list", "read", "write", "search"} :
                OccursIn(k, Words(name))
      [] intent = "FETCH" -> OccursIn("fetch", Words(name))
      [] OTHER -> FALSE

\* orchestrator.py:564-583
FilterTools(r, intent, q) ==
    IF intent = "GENERAL" THEN <<>>
    ELSE LET Kept(tool) == KeptBy(intent, tool.name)
         IN SelectSeq(GetOllamaTools(r, q), Kept)

\* agentic_engine.py:262-284: the intent's category, the other categories
\* named in the query, the local tools with a word of their name in it
Candidates(r, intent, q) ==
    LET cats == GetCategories(r)
        Named(cat) == cat # intent /\ cat # "GENERAL" /\ OccursIn(Lower(cat), q)
        named == SelectSeq(cats, Named)
        Mentioned(tool) == \E token \in Words(tool.name) : OccursIn(token, q)
    IN GetToolsByCategory(r, intent)
       \o Flatten([i \in DOMAIN named |-> GetToolsByCategory(r, named[i])])
       \o SelectSeq(GetToolsByCategory(r, "GENERAL"), Mentioned)

\* agentic_engine.py:255-295
GetExpandedTools(r, intent, q) ==
    Take(Unique(Candidates(r, intent, q), {}), MAX_TOOLS_AGENTIC)

\* agentic_engine.py:297-334
NeedsToolExpansion(r, text, current) ==
    \E i \in DOMAIN GetCategories(r) :
        LET cat == GetCategories(r)[i]
            cat_tools == GetToolsByCategory(r, cat)
        IN /\ cat # "GENERAL"
           /\ OccursIn(Lower(cat), text)
           /\ cat_tools # <<>>
           /\ Names(cat_tools) \cap Names(current) = {}

\* agentic_engine.py:345-348: the tools of the categories the text names
MentionedTools(r, text) ==
    LET cats == GetCategories(r)
        Named(cat) == cat # "GENERAL" /\ OccursIn(Lower(cat), text)
        named == SelectSeq(cats, Named)
    IN Flatten([i \in DOMAIN named |-> GetToolsByCategory(r, named[i])])

RECURSIVE Extend(_, _, _)
\* agentic_engine.py:350-358: a tool with a new name is appended; the
\* loops stop once the list holds cap tools
Extend(expanded, tools, cap) ==
    IF tools = <<>> THEN expanded
    ELSE IF Head(tools).name \in Names(expanded)
         THEN Extend(expanded, Tail(tools), cap)
    ELSE IF Len(expanded) + 1 >= cap THEN Append(expanded, Head(tools))
    ELSE Extend(Append(expanded, Head(tools)), Tail(tools), cap)

\* the expansion appending every missing tool
ExpandToolsMidloopUncapped(r, text, current) ==
    Extend(current, MentionedTools(r, text), Len(current) + Len(r.remote) + 1)

\* agentic_engine.py:336-363
ExpandToolsMidloop(r, text, current) ==
    Take(Extend(current, MentionedTools(r, text), MAX_TOOLS_AGENTIC),
         MAX_TOOLS_AGENTIC)

\* what the classifier and the users of the model say
SelectIntents == {"GENERAL", "GIT", "FILESYSTEM"}
Queries ==
    {{}, {"status"}, {"git"}, {"git", "filesystem"}, {"reading"}, {"time", "git"}}
ReasoningTexts == {{}, {"git"}, {"filesystem"}, {"git", "filesystem"}}

\* orchestrator.py:155: SIMPLE
FilterToolsCall(intent, q) ==
    /\ ret' = [op |-> "filter_tools", arg |-> [intent |-> intent, query |-> q],
               value |-> FilterTools(registry, intent, q)]
    /\ UNCHANGED registry
    /\ RegistryOnly

\* orchestrator.py:153: COMPLEX; the list the executor is entered with
GetExpandedToolsCall(intent, q) ==
    /\ ret' = [op |-> "get_expanded_tools",
               arg |-> [intent |-> intent, query |-> q],
               value |-> GetExpandedTools(registry, intent, q)]
    /\ UNCHANGED registry
    /\ RegistryOnly

\* the attached list of a COMPLEX turn is the last value returned
Attached == ret.op \in {"get_expanded_tools", "expand_tools_midloop"}

\* agentic_engine.py:536-538: after a round, on the attached list
ExpandCall(text) ==
    /\ Attached
    /\ NeedsToolExpansion(registry, text, ret.value)
    /\ ret' = [op |-> "expand_tools_midloop", arg |-> text, from |-> ret.value,
               value |-> ExpandToolsMidloop(registry, text, ret.value)]
    /\ UNCHANGED registry
    /\ RegistryOnly

\* every server has one client
RegisterNewMcpClient(client) ==
    /\ \A i \in DOMAIN registry.clients : registry.clients[i] # client
    /\ RegisterMcpClient(client)

\* a registry being set up, and selections on whatever it holds
NextSelect ==
    \/ \E tool \in LocalCandidates : RegisterCall(tool)
    \/ \E client \in ClientNames : RegisterNewMcpClient(client)
    \/ RefreshBegin
    \/ RefreshListed
    \/ \E intent \in SelectIntents, q \in Queries : FilterToolsCall(intent, q)
    \/ \E intent \in SelectIntents, q \in Queries : GetExpandedToolsCall(intent, q)
    \/ \E text \in ReasoningTexts : ExpandCall(text)

SpecSelect == InitRegistry /\ [][NextSelect]_vars

(***************************************************************************)
(* services/agentic_engine.py: classify_intent_and_complexity, called by   *)
(* ChatOrchestrator.run with has_media from the attachments of the last    *)
(* message.  A classifier output is a sequence of lines, a line a sequence *)
(* of words.                                                               *)
(***************************************************************************)
\* attachments: the type, and whether base64_data (image) or transcription
\* (audio, video) is there
MediaTypes == {"image", "audio", "video"}
Attachments == [type : MediaTypes, filled : BOOLEAN]

\* the attachments of the last message: none or one
AttachmentLists == {<<>>} \cup {<<a>> : a \in Attachments}

\* orchestrator.py:84-98, 147: has_images or has_audio_transcription
HasMedia(atts) ==
    \E i \in DOMAIN atts :
        \/ atts[i].type = "image" /\ atts[i].filled
        \/ atts[i].type \in {"audio", "video"} /\ atts[i].filled

\* lines a classifier writes
ClassifierLines ==
    {<<"INTENT:", "GIT">>, <<"intent:", "git">>, <<"FETCH">>,
     <<"INTENT:", "GITHUB", "OPERATIONS">>, <<"INTENT:", "FILESYSTEM">>,
     <<"INTENT:", "GENERAL">>, <<"COMPLEXITY:", "SIMPLE">>,
     <<"COMPLEXITY:", "COMPLEX">>, <<"COMPLEXITY:", "1">>, <<"COMPLEX">>}

\* outputs of at most two lines
ClassifierTexts ==
    {<<>>} \cup {<<l>> : l \in ClassifierLines}
           \cup {<<l, k>> : l \in ClassifierLines, k \in ClassifierLines}

\* agentic_engine.py:125: text.upper()
UpperLine(line) == [i \in DOMAIN line |-> Upper(line[i])]
UpperText(text) == [i \in DOMAIN text |-> UpperLine(text[i])]

\* agentic_engine.py:136: line.replace("INTENT:", "").strip()
CleanLine(line) == SelectSeq(line, LAMBDA w : w # "INTENT:")

\* len(category)
CatLen(c) == CASE c = "FILESYSTEM" -> 10 [] c = "GENERAL" -> 7 [] OTHER -> 3

\* agentic_engine.py:145-148: the longest valid intent that is part of
\* the line, or the intent so far
SubstringMatch(clean, valid, intent) ==
    LET found == {v \in valid : \E i \in DOMAIN clean : Within(v, clean[i])}
    IN IF found = {} THEN intent
       ELSE CHOOSE v \in found : \A u \in found : CatLen(u) <= CatLen(v)

RECURSIVE ParseIntent(_, _, _)
\* agentic_engine.py:131-151
ParseIntent(lines, valid, intent) ==
    IF lines = <<>> THEN intent
    ELSE LET clean == CleanLine(Head(lines))
             next == SubstringMatch(clean, valid, intent)
         IN IF Len(clean) = 1 /\ clean[1] \in valid THEN clean[1]
            ELSE IF next # "GENERAL" THEN next
            ELSE ParseIntent(Tail(lines), valid, next)

\* agentic_engine.py:154-166 with the test `"COMPLEX" in line`
ParseComplexityWholeLine(lines) ==
    IF \E n \in DOMAIN lines : \E j \in DOMAIN lines[n] :
          Within("COMPLEX", lines[n][j])
    THEN "COMPLEX" ELSE "SIMPLE"

\* agentic_engine.py:154-166: COMPLEX in what follows the first
\* COMPLEXITY of a line
ParseComplexity(lines) ==
    IF \E n \in DOMAIN lines : \E i \in DOMAIN lines[n] :
          /\ Within("COMPLEXITY", lines[n][i])
          /\ \A h \in 1..(i - 1) : ~Within("COMPLEXITY", lines[n][h])
          /\ \E j \in (i + 1)..Len(lines[n]) : Within("COMPLEX", lines[n][j])
    THEN "COMPLEX" ELSE "SIMPLE"

\* set(all_categories)
ValidIntents(r) ==
    LET cats == GetCategories(r) IN {cats[i] : i \in DOMAIN cats}

\* agentic_engine.py:57-172: the result, and the provider calls made
ClassifyIntentAndComplexity(r, text, has_media) ==
    IF has_media
    THEN [intent |-> "GENERAL", complexity |-> "SIMPLE", calls |-> 0]
    ELSE [intent |-> ParseIntent(UpperText(text), ValidIntents(r), "GENERAL"),
          complexity |-> ParseComplexity(UpperText(text)),
          calls |-> 1]

\* orchestrator.py:84-98, 145-148: the turn classifies its input; text is
\* what the classifier answers when asked
ClassifyCall(atts, text) ==
    /\ HasMedia(atts) => text = <<>>
    /\ ret' = [op |-> "classify", attachments |-> atts, text |-> text,
               value |-> ClassifyIntentAndComplexity(registry, text,
                                                    HasMedia(atts))]
    /\ UNCHANGED registry
    /\ RegistryOnly

NextClassify ==
    \/ \E client \in ClientNames : RegisterNewMcpClient(client)
    \/ \E atts \in AttachmentLists, text \in ClassifierTexts :
         ClassifyCall(atts, text)

SpecClassify == InitRegistry /\ [][NextClassify]_vars

(***************************************************************************)
(* services/agentic_engine.py: create_plan, and the steps of the plan that *)
(* execute() puts into its guidance messages.  A planner output is a       *)
(* sequence of lines.                                                      *)
(***************************************************************************)
\* the lines a planner output may have
MaxPlanLines == 7

\* MAX_PLAN_STEPS of steps[:6]
PLAN_CAP == 6

\* a line: blank, "3. Step three" (numbered), "12. Step" (two_digit),
\* "3." alone (bare), or "Step three" (plain)
LineKinds == {"numbered", "two_digit", "bare", "plain"}
PlanLine(kind, i) == [kind |-> kind, i |-> i]

\* outputs of n lines of one kind, with or without a blank line before
PlannerOutputs ==
    {[i \in 1..n |-> PlanLine(kind, i)] : n \in 0..MaxPlanLines, kind \in LineKinds}
    \cup {<<PlanLine("blank", 0)>> \o [i \in 1..n |-> PlanLine(kind, i)] :
              n \in 0..MaxPlanLines, kind \in LineKinds}

\* agentic_engine.py:231-238: the line without its numbering; a number
\* alone is too short to be taken off
StepOf(line) ==
    IF line.kind = "bare" THEN [text |-> "number", i |-> line.i]
    ELSE [text |-> "step", i |-> line.i]

RECURSIVE StepsOf(_)
\* agentic_engine.py:229-240
StepsOf(lines) ==
    IF lines = <<>> THEN <<>>
    ELSE IF Head(lines).kind = "blank" THEN StepsOf(Tail(lines))
    ELSE <<StepOf(Head(lines))>> \o StepsOf(Tail(lines))

\* agentic_engine.py:246
SyntheticStep == [text |-> "Analyze the request", i |-> 0]

\* agentic_engine.py:228-249
ParsePlan(lines) ==
    LET steps == Take(StepsOf(lines), PLAN_CAP)
    IN IF steps = <<>> THEN <<SyntheticStep>> ELSE steps

\* orchestrator.py:212-216, agentic_engine.py:385, 412-425: the plan is
\* made and the first guidance names plan[0]
CreatePlanCall(output) ==
    /\ ret' = [op |-> "create_plan", output |-> output,
               plan |-> ParsePlan(output), current_step |-> 0,
               referenced |-> 1]
    /\ UNCHANGED registry
    /\ RegistryOnly

\* agentic_engine.py:533-551: a round ends; the next guidance names
\* plan[current_step] while current_step < total_steps (referenced is the
\* position in the plan, 0 when no step is named)
RoundEnds ==
    /\ ret.op \in {"create_plan", "round"}
    /\ ret.current_step < MAX_AGENT_ROUNDS
    /\ LET step == ret.current_step + 1
       IN ret' = [ret EXCEPT !.op = "round", !.current_step = step,
                             !.referenced = IF step < Len(ret.plan)
                                            THEN step + 1 ELSE 0]
    /\ UNCHANGED registry
    /\ RegistryOnly

NextPlan ==
    \/ \E output \in PlannerOutputs : CreatePlanCall(output)
    \/ RoundEnds

SpecPlan == InitRegistry /\ [][NextPlan]_vars

(***************************************************************************)
(* Properties.                                                             *)
(***************************************************************************)
Completed(t) == run[t].pc = "done"

IsCallMsg(m) == m.role = "assistant" /\ m.tool_calls # <<>>
IsTextMsg(m) == m.role = "assistant" /\ m.tool_calls = <<>>
IsToolMsg(m) == m.role = "tool"

ToolMsgsOf(msgs) == SelectSeq(msgs, IsToolMsg)

HasPrefix(content, prefix) ==
    /\ Len(content) >= Len(prefix)
    /\ SubSeq(content, 1, Len(prefix)) = prefix

DoneCount(chunks) == Cardinality({i \in DOMAIN chunks : chunks[i].done})

FailedExecutions(t) ==
    {i \in DOMAIN run[t].executed : run[t].executed[i].outcome # "ok"}

\* C1: the chunks of a completed turn hold exactly one chunk with
\* done=true, and it is the last chunk.
C1_ExactlyOneDoneAndLast ==
    \A t \in Tasks :
        Completed(t) =>
            /\ run[t].chunks # <<>>
            /\ run[t].chunks[Len(run[t].chunks)].done
            /\ DoneCount(run[t].chunks) = 1

\* C2: after completed turns run one at a time the sequence numbers of the
\* persisted messages are 1..N in persistence order, without gap or duplicate.
C2_SequenceNumbersAreOneToN ==
    (\A t \in Tasks : run[t].pc \in {"idle", "done"}) =>
        \A i \in DOMAIN db : db[i].sequence_number = i

\* C3: with interleaved turns, a turn that has started has its user message
\* persisted, and no two persisted messages share a sequence number.
C3_InterleavedTurnsKeepSequenceUnique ==
    /\ \A t \in Tasks :
         run[t].pc # "idle" =>
            \E i \in DOMAIN db : db[i].turn = run[t].turn /\ db[i].role = "user"
    /\ \A i, j \in DOMAIN db :
         i # j => db[i].sequence_number # db[j].sequence_number

\* C4: every persisted role=tool message carries the id of a tool call of an
\* assistant message persisted earlier, with a lower sequence number.
C4_ToolRowRefersToEarlierCall ==
    \A i \in DOMAIN db :
        db[i].role = "tool" =>
            \E j \in 1..(i - 1) :
                /\ db[j].role = "assistant"
                /\ db[j].sequence_number < db[i].sequence_number
                /\ \E k \in DOMAIN db[j].tool_calls :
                     db[j].tool_calls[k].id = db[i].tool_call_id

C4_Witness ==
    \E t \in Tasks :
        /\ Completed(t)
        /\ Cardinality({i \in DOMAIN db :
                          db[i].role = "tool" /\ db[i].turn = run[t].turn}) = 2

\* the tool messages that answer the assistant message at position p of a
\* message list: one per call, in the order of the calls, and no more
AnsweredInOrder(msgs, p) ==
    LET calls == msgs[p].tool_calls
        n     == Len(calls)
    IN /\ p + n <= Len(msgs)
       /\ \A k \in 1..n :
            /\ IsToolMsg(msgs[p + k])
            /\ msgs[p + k].tool_call_id = calls[k].id
       /\ \A k \in 1..n :
            Cardinality({m \in (p + 1)..(p + n) :
                           msgs[m].tool_call_id = calls[k].id}) = 1
       /\ (p + n + 1 <= Len(msgs) => ~IsToolMsg(msgs[p + n + 1]))

\* C5: in a completed turn the role=tool messages appended are as many as
\* the tool calls the model issued, exactly one per call id of each round,
\* whether the tool succeeded or failed.
C5_OneToolMessagePerCall ==
    \A t \in Tasks :
        Completed(t) =>
            /\ Len(ToolMsgsOf(run[t].appended)) = run[t].issued
            /\ \A p \in DOMAIN run[t].appended :
                 IsCallMsg(run[t].appended[p]) =>
                    AnsweredInOrder(run[t].appended, p)

C5_Witness ==
    \E t \in Tasks :
        /\ Completed(t)
        /\ run[t].complexity = "COMPLEX"
        /\ run[t].round_num = 2
        /\ run[t].issued = 2
        /\ FailedExecutions(t) # {}

\* C6: every tool call issued and every tool result produced in a completed
\* turn is persisted, in the COMPLEX path as in the one-shot path.
C6_ToolTrafficIsPersisted ==
    \A t \in Tasks :
        Completed(t) =>
            \A p \in DOMAIN run[t].appended :
                LET m == run[t].appended[p]
                IN (IsCallMsg(m) \/ IsToolMsg(m)) =>
                      \E i \in DOMAIN db :
                          /\ db[i].turn = run[t].turn
                          /\ db[i].role = m.role
                          /\ db[i].tool_calls = m.tool_calls
                          /\ db[i].tool_call_id = m.tool_call_id

\* C7: a failed tool execution does not abort the turn: no exception leaves
\* run() at a tool execution, the failed call gets its role=tool message,
\* and a turn that completes has executed every issued call, has made a
\* further LLM call after the failure and ends its stream with done=true.
C7_ToolFailureIsRecovered ==
    \A t \in Tasks :
        /\ run[t].pc = "raised" => run[t].raised_at \notin {"exec_tool", "react_tool"}
        /\ \A i \in FailedExecutions(t) :
             /\ i <= Len(ToolMsgsOf(run[t].appended))
             /\ ToolMsgsOf(run[t].appended)[i].tool_call_id = run[t].executed[i].call.id
             /\ Completed(t) =>
                  /\ Len(run[t].executed) = run[t].issued
                  /\ run[t].streams > run[t].executed[i].after_stream
                  /\ run[t].chunks[Len(run[t].chunks)].done

C7_Witness ==
    \E t \in Tasks :
        /\ Completed(t)
        /\ run[t].complexity = "SIMPLE"
        /\ Len(run[t].executed) = 2
        /\ run[t].executed[1].outcome = "timeout"
        /\ run[t].executed[2].outcome = "ok"

\* C8: the role=tool message of a failed tool call starts with
\* "Error executing <name>:", in the one-shot path and in the executor.
C8_ErrorPrefix ==
    \A t \in Tasks :
        \A i \in FailedExecutions(t) :
            i <= Len(ToolMsgsOf(run[t].appended)) =>
                HasPrefix(ToolMsgsOf(run[t].appended)[i].content,
                          <<"Error", "executing", run[t].executed[i].call.name, ":">>)

\* C9: when the provider fails in the classifier call the caller has
\* received exactly one chunk, which carries an error field and is not
\* done, and the turn has persisted no assistant message.
C9_ClassifierFailureYieldsErrorChunk ==
    \A t \in Tasks :
        (run[t].pc = "raised" /\ run[t].raised_at = "classify") =>
            /\ Len(run[t].chunks) = 1
            /\ "error" \in DOMAIN run[t].chunks[1]
            /\ ~run[t].chunks[1].done
            /\ \A i \in DOMAIN db :
                 ~(db[i].turn = run[t].turn /\ db[i].role = "assistant")

\* the first assistant text message after position i, or the end of the list
NextTextAfter(d, i) ==
    LET later == {j \in (i + 1)..Len(d) : IsTextMsg(d[j])}
    IN IF later = {} THEN Len(d) + 1
       ELSE CHOOSE j \in later : \A k \in later : j <= k

\* C10: once a later assistant text message is persisted, every persisted
\* assistant tool call has exactly one role=tool message with its id
\* before that text, also when a turn in between was ended by a failure.
C10_CallsAnsweredBeforeNextText ==
    \A i \in DOMAIN db :
        (IsCallMsg(db[i]) /\ NextTextAfter(db, i) <= Len(db)) =>
            \A k \in DOMAIN db[i].tool_calls :
                Cardinality({m \in (i + 1)..(NextTextAfter(db, i) - 1) :
                               /\ db[m].role = "tool"
                               /\ db[m].tool_call_id = db[i].tool_calls[k].id}) = 1

\* the rows a turn has persisted, in persistence order
RowsOfTurn(turn) ==
    LET OfTurn(r) == r.turn = turn
    IN SelectSeq(db, OfTurn)

\* a completed turn of the one-shot path in which the model issued calls
OneShotWithCalls(t) ==
    /\ Completed(t)
    /\ Dispatch(run[t].complexity, run[t].tools) = "stream1"
    /\ run[t].current_tool_calls # <<>>

\* C11: a completed one-shot turn whose first round returned n >= 1 tool
\* calls made exactly two stream calls, the first with the selected tools,
\* the second without tools on a list ending in a role=tool message, and
\* persisted user, assistant with the calls, n tool rows, synthesis.
C11_OneShotShape ==
    \A t \in Tasks :
        OneShotWithCalls(t) =>
            LET f    == run[t]
                n    == Len(f.current_tool_calls)
                rows == RowsOfTurn(f.turn)
            IN /\ Len(f.llm_calls) = 2
               /\ f.llm_calls[1].tools = f.tools
               /\ f.tools # <<>>
               /\ f.llm_calls[2].tools = <<>>
               /\ f.llm_calls[2].last_role = "tool"
               /\ Len(rows) = n + 3
               /\ rows[1].role = "user"
               /\ rows[2].role = "assistant"
               /\ rows[2].tool_calls = f.current_tool_calls
               /\ \A k \in 1..n :
                    /\ rows[2 + k].role = "tool"
                    /\ rows[2 + k].tool_call_id = f.current_tool_calls[k].id
               /\ rows[n + 3].role = "assistant"
               /\ rows[n + 3].tool_calls = <<>>

C11_Witness ==
    \E t \in Tasks :
        /\ OneShotWithCalls(t)
        /\ Len(run[t].current_tool_calls) = 2
        /\ Len(RowsOfTurn(run[t].turn)) = 5

\* the calls of an assistant message came from the text parser: their ids
\* were minted by ToolCall's default factory
ParsedFromText(m) == IsCallMsg(m) /\ m.tool_calls[1].id[1] = "uuid"

\* the content is the raw JSON text the parser reads tool calls from
IsRawJson(content) == content # <<>> /\ Head(content) = "json"

\* C12: when the tool calls of a round were parsed from the model's text,
\* that text is not streamed to the caller as content and the assistant
\* tool-call message has empty content, in both paths.
C12_ParsedTextNotDelivered ==
    \A t \in Tasks :
        /\ \A i \in DOMAIN run[t].chunks : ~IsRawJson(run[t].chunks[i].content)
        /\ \A p \in DOMAIN run[t].appended :
             ParsedFromText(run[t].appended[p]) =>
                run[t].appended[p].content = <<>>
        /\ \A i \in DOMAIN db :
             ParsedFromText(db[i]) => db[i].content = <<>>

\* where the turn is, or was when an exception ended it
Position(f) == IF f.pc = "raised" THEN f.raised_at ELSE f.pc

\* the turn has passed the dispatch of run()
Routed(f) ==
    Position(f) \notin {"idle", "history", "summary", "cache_get", "classify",
                        "select", "recall", "cache_set"}

AgenticPcs ==
    {"plan", "execute", "react", "react_tool", "force_synthesis",
     "persist_agentic"}

\* create_plan was called (and execute, once the plan was returned)
PlannerInvoked(f) ==
    \/ Position(f) \in AgenticPcs
    \/ f.plan_len > 0

\* the first stream of the one-shot path was requested
OneShotInvoked(f) ==
    \/ Position(f) = "stream1"
    \/ (f.streams > 0 /\ f.plan_len = 0 /\ Position(f) \notin AgenticPcs)

\* C13: the planner and the executor are invoked if and only if the
\* classifier returned COMPLEX and the selected tool list is non-empty;
\* every other turn is handled by the one-shot path.
C13_AgenticIffComplexWithTools ==
    \A t \in Tasks :
        Routed(run[t]) =>
            LET agentic == run[t].complexity = "COMPLEX" /\ run[t].tools # <<>>
            IN /\ PlannerInvoked(run[t]) <=> agentic
               /\ OneShotInvoked(run[t]) <=> ~agentic
               /\ run[t].round_num > 0 => agentic

C13_Witness ==
    \E t \in Tasks :
        /\ Completed(t)
        /\ run[t].complexity = "COMPLEX"
        /\ run[t].tools = <<>>
        /\ run[t].plan_len = 0
        /\ run[t].streams = 1

\* provider.stream calls of the turn that had tools attached
ToolRounds(f) == Cardinality({i \in DOMAIN f.llm_calls : f.llm_calls[i].tools # <<>>})

\* the forced synthesis was announced to the caller
Forced(f) ==
    \E i \in DOMAIN f.chunks : f.chunks[i].status = <<"Generating", "final", "answer">>

\* execute() has returned after its terminal chunk
ExecuteEnded(f) == f.plan_len > 0 /\ f.pc \in {"persist_agentic", "done"}

C14_ExecuteBounded ==
    \A t \in Tasks :
        LET f == run[t]
        IN /\ f.round_num <= MAX_AGENT_ROUNDS
           /\ ToolRounds(f) <= MAX_AGENT_ROUNDS
           /\ f.pc = "force_synthesis" =>
                \/ f.round_num = MAX_AGENT_ROUNDS
                \/ f.chunks[Len(f.chunks)].status = <<"Timeout", "reached">>
           /\ (f.pc = "react" /\ f.round_num > 0) => f.round_num < MAX_AGENT_ROUNDS
           /\ ExecuteEnded(f) =>
                /\ f.chunks[Len(f.chunks)].done
                /\ DoneCount(f.chunks) = 1
                /\ (f.round_num = MAX_AGENT_ROUNDS => Forced(f))
                /\ Forced(f) =>
                     /\ f.llm_calls[Len(f.llm_calls)].tools = <<>>
                     /\ Len(f.llm_calls) = ToolRounds(f) + 1
                     /\ \A i \in DOMAIN f.executed :
                          f.executed[i].after_stream < Len(f.llm_calls)

\* C14: execute() terminates when every provider stream and tool call
\* returns: at most 8 rounds with tools; after the round cap or the
\* timeout exactly one final call without tools and no further tool; and
\* it ends with the terminal chunk.
C14_ExecuteTerminates ==
    /\ []C14_ExecuteBounded
    /\ (\E t \in Tasks : run[t].pc = "execute")
          ~> (\E t \in Tasks : ExecuteEnded(run[t]))

C14_Witness ==
    \E t \in Tasks :
        /\ ExecuteEnded(run[t])
        /\ run[t].round_num = MAX_AGENT_ROUNDS
        /\ Len(run[t].executed) = MAX_AGENT_ROUNDS
        /\ Len(run[t].llm_calls) = MAX_AGENT_ROUNDS + 1

\* the tool calls the model issued in the turn, in the order it listed them
IssuedCalls(f) ==
    LET callMsgs == SelectSeq(f.appended, IsCallMsg)
    IN Concat([i \in 1..Len(callMsgs) |-> callMsgs[i].tool_calls])

\* the status chunks the executor emits around one tool execution
IsToolStatus(c) ==
    /\ c.status # <<>>
    /\ \/ c.status[1] = "Calling"
       \/ c.status[Len(c.status)] = "ok"

\* the status chunks expected for a log of tool executions
StatusPairs(executed) ==
    Concat([i \in 1..Len(executed) |->
              <<StatusChunk(<<"Calling", executed[i].call.name>>),
                StatusChunk(<<executed[i].call.name, "ok">>)>>])

\* C15: in the executor the tools run one at a time in the order the
\* model listed them, each between its "Calling" and its completion status
\* chunk; the i-th role=tool message carries the id of the i-th call; no
\* status chunk of a round follows a content chunk.
C15_RoundOrder ==
    \A t \in Tasks :
        PlannerInvoked(run[t]) =>
            LET f     == run[t]
                calls == IssuedCalls(f)
                tmsgs == ToolMsgsOf(f.appended)
            IN /\ Len(f.executed) <= Len(calls)
               /\ \A i \in DOMAIN f.executed : f.executed[i].call = calls[i]
               /\ Len(tmsgs) = Len(f.executed)
               /\ \A i \in DOMAIN tmsgs : tmsgs[i].tool_call_id = calls[i].id
               /\ SelectSeq(f.chunks, IsToolStatus) = StatusPairs(f.executed)
               /\ \A i, j \in DOMAIN f.chunks :
                    (i < j /\ f.chunks[i].content # <<>>) => ~IsToolStatus(f.chunks[j])

C15_Witness ==
    \E t \in Tasks :
        /\ ExecuteEnded(run[t])
        /\ Len(run[t].executed) = 2
        /\ run[t].round_num = 1
        /\ run[t].executed[1].call.name # run[t].executed[2].call.name


\* the composition of the system prompt of turn f is finished
Composed(f) == Routed(f)

\* C16: in every turn that supplies a user id, the semantic-recall section
\* of the composed system prompt comes from a search with that turn's own
\* user text (or is empty when nothing is similar), also when an earlier
\* turn with another text has left a cache entry
C16_RecallFromOwnText ==
    \A t \in Tasks :
        (Composed(run[t]) /\ run[t].user_id) =>
            run[t].semantic_context \in RecallFor(run[t].user_text)


\* latest_seq - last_summarized_seq of the conversation as persisted
PersistedGap == MaxSeq(db) - conv.last_summarized_seq

\* the turn has written its answer row and summarization was not started
EndedWithoutSummary(f) == f.pc = "done" /\ f.sum_state = "none"

\* C17: a turn starts summarization if and only if, at its end,
\* latest_seq - last_summarized_seq >= 20 holds for the conversation, so
\* that it runs once per 20-message boundary and not again before 20
\* further messages are persisted (turns run one after the other)
C17_TriggeredIffGapReached ==
    \A t \in Tasks :
        /\ run[t].pc = "sum_fetch" => PersistedGap >= SUMMARY_GAP
        /\ EndedWithoutSummary(run[t]) => PersistedGap < SUMMARY_GAP


\* the sequence numbers from + 1 .. to, ascending
Chronological(from, to) == [i \in 1..(to - from) |-> from + i]

\* the messages a summary accounts for
Covered(summary) == {summary[i] : i \in DOMAIN summary}

\* the turn has stored a summary
Stored(f) == f.sum_state = "stored"

\* C18: when summarization stores last_summarized_seq = s over p, the new
\* segment summary was made from exactly the messages p+1..s in
\* chronological order and merged with the prior summary, and the stored
\* summary accounts for the messages 1..s and for no other
C18_SegmentIsTheGap ==
    \A t \in Tasks :
        Stored(run[t]) =>
            LET f == run[t]
                before == f.sum_prev.last_summarized_seq
                stored == FinalSummary(f.old_summary, f.new_summary)
            IN /\ f.new_summary = Chronological(before, f.current_seq)
               /\ f.old_summary = f.sum_prev.summary
               /\ Covered(stored) = 1..f.current_seq


\* C19: at every moment, so after any turn, also one whose summarization
\* ran, failed or was overtaken by an interleaved turn, the stored
\* last_summarized_seq is at most the largest persisted sequence_number
C19_SummarizedSeqIsPersisted == conv.last_summarized_seq <= MaxSeq(db)

\* two turns that saw the same window have both stored a summary, and the
\* summary reaches the newest row
C19_Witness ==
    /\ \A t \in Tasks : Stored(run[t])
    /\ run[1].hist_len = run[2].hist_len
    /\ conv.last_summarized_seq = MaxSeq(db)


\* the summarization of turn t is under way
Summarizing(t) == run[t].pc \in SummaryPcs

\* the caller has the terminal chunk of turn f as its last chunk, and the
\* answer of the turn is a row at the sequence number the turn reached
Delivered(f, d) ==
    /\ f.chunks # <<>>
    /\ f.chunks[Len(f.chunks)].done
    /\ DoneCount(f.chunks) = 1
    /\ \E i \in DOMAIN d :
         /\ d[i].turn = f.turn
         /\ IsTextMsg(d[i])
         /\ d[i].content = f.full_content
         /\ d[i].sequence_number = f.current_seq

\* one step of the summarization of turn t, whose steps nothing
\* interleaves with: short of the write-back the summary and
\* last_summarized_seq stay as they are, and a failing step ends the turn
\* normally, delivered and with nothing raised
ContainedStep(t) ==
    Summarizing(t) =>
        /\ ~Stored(run'[t]) => conv' = conv
        /\ run'[t].sum_state = "failed" =>
              /\ run'[t].pc = "done"
              /\ Delivered(run'[t], db')

Fetched == ret.op = "get_recent_messages"

\* the rows of d that are not among the rows of v
LeftOut(d, v) == {d[i] : i \in DOMAIN d} \ {v[i] : i \in DOMAIN v}

\* C21: get_recent_messages(conversation, limit) returns min(limit, N)
\* different messages of the N of the conversation, none with a sequence
\* number below one that was left out, in ascending sequence order
C21_WindowIsTheTail ==
    Fetched =>
        LET v == ret.value
        IN /\ Len(v) = Min(ret.limit, Len(db))
           /\ \A i \in DOMAIN v : \E j \in DOMAIN db : v[i] = db[j]
           /\ \A i, j \in DOMAIN v :
                i < j => /\ v[i] # v[j]
                         /\ v[i].sequence_number <= v[j].sequence_number
           /\ \A r \in LeftOut(db, v) : \A i \in DOMAIN v :
                r.sequence_number <= v[i].sequence_number

\* limit 50 on the 60 messages 0..59: 50 messages, the first numbered 10
C21_Witness ==
    /\ Fetched
    /\ db = ScriptConversation
    /\ ret.limit = HISTORY_WINDOW
    /\ Len(ret.value) = 50
    /\ ret.value[1].sequence_number = 10


\* get_tool has returned
Resolved == ret.op = "get_tool"

\* C22: get_tool(name) returns the local tool of that name when there is
\* one, otherwise the cached remote tool of that name, otherwise it fails;
\* a name that is both local and remote resolves to the local tool
C22_ResolveLocalFirst ==
    Resolved =>
        LET locals  == {registry.tools[i] : i \in DOMAIN registry.tools}
            remotes == {registry.remote[i] : i \in DOMAIN registry.remote}
            named(tools) == {tool \in tools : tool.name = ret.arg}
        IN /\ named(locals) # {} => ret.value \in named(locals)
           /\ (named(locals) = {} /\ named(remotes) # {}) =>
                 ret.value \in named(remotes)
           /\ (named(locals) = {} /\ named(remotes) = {}) =>
                 ret.value = ToolError(ret.arg)

\* a name registered locally and cached from a server was resolved
C22_Witness ==
    /\ Resolved
    /\ ret.arg \in Names(registry.tools) \cap Names(registry.remote)
    /\ ret.value.kind = "local"


\* the last call was a lookup, made while a refresh is suspended
LookupDuringRefresh ==
    /\ ret.op \in {"get_tool", "get_tools_by_category"}
    /\ registry.refreshing > 0

\* C23: a lookup made while refresh_remote_tools is suspended in another
\* task sees the complete remote map from before the refresh (the map
\* after it exists only once the last source has answered), never an
\* empty or partly filled one
C23_RefreshIsAtomic ==
    LookupDuringRefresh => registry.remote = registry.before

\* C24: no tool name is at once a registered local tool and an entry of
\* the remote cache, so every descriptor get_tools_by_category returns
\* resolves through get_tool to the tool it describes
C24_PopulationsDisjoint ==
    /\ Names(registry.tools) \cap Names(registry.remote) = {}
    /\ ret.op = "get_tools_by_category" =>
          \A i \in DOMAIN ret.value :
              GetTool(registry, ret.value[i].name) = ret.value[i]

\* register was called with a name that is registered locally
DuplicateRegistered ==
    /\ ret'.op = "register"
    /\ ret'.arg.name \in Names(registry.tools)

\* C25: register of a tool whose name is already registered locally fails
\* and leaves local tools, remote cache and client list as they were;
\* get_tool still returns the tool registered before
C25_DuplicateRejected ==
    [][DuplicateRegistered =>
          /\ ret'.value = ToolError(ret'.arg.name)
          /\ registry' = registry
          /\ GetTool(registry', ret'.arg.name) = Lookup(registry.tools, ret'.arg.name)
      ]_vars

\* another implementation of a registered name was refused
C25_Witness ==
    /\ ret.op = "register"
    /\ ret.value = ToolError(ret.arg.name)
    /\ \E i \in DOMAIN registry.tools :
         /\ registry.tools[i].name = ret.arg.name
         /\ registry.tools[i] # ret.arg


\* the cap of the one-shot mode
ONE_SHOT_CAP == 5

\* C26: in SIMPLE mode the tool list attached to the LLM call holds at
\* most 5 tools, whatever the registry, the intent and the query
C26_SimpleCap ==
    ret.op = "filter_tools" => Len(ret.value) <= ONE_SHOT_CAP

\* no two tools of the list have the same name
DistinctNames(tools) ==
    \A i, j \in DOMAIN tools : tools[i].name = tools[j].name => i = j

\* C27: in COMPLEX mode the attached list holds at most 8 tools, without
\* duplicate names, on entry to the executor and after every mid-loop
\* expansion, and an expansion keeps the tools already attached in place
C27_ComplexCap ==
    Attached =>
        /\ Len(ret.value) <= MAX_TOOLS_AGENTIC
        /\ DistinctNames(ret.value)
        /\ ret.op = "expand_tools_midloop" =>
              /\ Len(ret.from) <= Len(ret.value)
              /\ SubSeq(ret.value, 1, Len(ret.from)) = ret.from

\* an expansion that the cap cut short: more tools were missing than fit
C27_Witness ==
    /\ ret.op = "expand_tools_midloop"
    /\ Len(ret.from) < Len(ret.value)
    /\ Len(ret.value) = MAX_TOOLS_AGENTIC
    /\ Len(ExpandToolsMidloopUncapped(registry, ret.arg, ret.from)) > MAX_TOOLS_AGENTIC


\* the distinctive keywords of the reference selection
Keywords == {"read", "write", "search", "fetch"}

\* the reference selection: the tools of the intent's category, then the
\* tools of every other category whose name, or a keyword found in one of
\* its tool names, occurs in the query; first occurrence of a name kept;
\* truncated to the cap
Reference(r, intent, q, cap) ==
    LET cats == GetCategories(r)
        ByKeyword(cat) ==
            \E k \in Keywords : \E i \in DOMAIN GetToolsByCategory(r, cat) :
                /\ OccursIn(k, q)
                /\ OccursIn(k, Words(GetToolsByCategory(r, cat)[i].name))
        Other(cat) == cat # intent /\ (OccursIn(Lower(cat), q) \/ ByKeyword(cat))
        others == SelectSeq(cats, Other)
    IN Take(Unique(GetToolsByCategory(r, intent)
                   \o Flatten([i \in DOMAIN others |->
                                  GetToolsByCategory(r, others[i])]), {}),
            cap)

\* a selection was made, with the cap of its mode
Selected == ret.op \in {"filter_tools", "get_expanded_tools"}
CapOf(op) == IF op = "filter_tools" THEN ONE_SHOT_CAP ELSE MAX_TOOLS_AGENTIC

\* C28: tool selection is a function of registry state, intent and query,
\* and the list it returns is the reference selection
C28_SelectionIsReference ==
    Selected =>
        ret.value = Reference(registry, ret.arg.intent, ret.arg.query, CapOf(ret.op))


\* list_tools was called with the tool list of the source, of at least one
\* descriptor, in the cache
ListedWithEntry ==
    /\ ret.op = "list_tools"
    /\ ret.entry # Absent
    /\ ret.entry[2] # <<>>

\* C29: with the tool list of the source in the cache, list_tools returns
\* the cached descriptors and neither starts the subprocess nor sends it a
\* request, also when the client is not connected or the server cannot
\* be started
C29_CacheHitBypassesSubprocess ==
    ListedWithEntry =>
        /\ ret.value = PyList(ret.entry[2])
        /\ ret.spawned = 0
        /\ ret.sent = 0

\* call_tool was called with a result stored under the key of its tool
\* name and arguments, and not expired
CalledWithEntry ==
    /\ ret.op = "call_tool"
    /\ ret.entry # Absent

\* C30: after call_tool stored a result, a call with the same tool name
\* and an equal argument mapping, in any key order, made before the entry
\* expires returns the stored text and sends no tools/call request, for
\* every text, the empty one included
C30_EqualCallsHitTheEntry ==
    CalledWithEntry =>
        /\ ret.value = PyStr(ret.entry[2])
        /\ ret.sent = 0


\* the connect of the last call failed
ConnectFailed ==
    /\ ret.op \in {"list_tools", "call_tool"}
    /\ ret.connect \in ConnectOutcomes \ {"connected"}

\* C39: after connect fails at any step (starting the process, creating
\* the session, the initialize handshake) no session is set, so that the
\* next list_tools or call_tool connects afresh
C39_FailedConnectLeavesNoSession ==
    ConnectFailed => mcp.session = "none"


\* the tasks whose request was written and not yet answered
InFlight == {t \in Tasks : mcp.ops[t].pc = "awaiting"}

\* C31: the client serializes concurrent calls: at most one request frame
\* is in flight on the stdio pair at any time
C31_OneFrameInFlight ==
    Cardinality(InFlight) <= 1

\* the stacks whose subprocess is running
Running == {s \in DOMAIN mcp.children : mcp.children[s]}

\* C40: concurrent operations on a client not yet connected attempt one
\* connect each, at most one subprocess runs, and every running subprocess
\* is in the stack of the client, which close() terminates
C40_OneOwnedChild ==
    /\ \A t \in Tasks : mcp.ops[t].connects <= 1
    /\ Cardinality(Running) <= 1
    /\ \A s \in Running : mcp.exit_stack = s


\* no operation is running on the client
Quiescent == \A t \in Tasks : mcp.ops[t].pc \in {"idle", "done"}

\* close() returned, or the connect of the last call failed, with no
\* operation running
ClosedOrFailed ==
    /\ Quiescent
    /\ \/ ret.op = "close"
       \/ ConnectFailed

\* C32: after close returns, in whatever state it was called, and after a
\* connect that failed, no subprocess of the client is running (stated for
\* the moments at which no operation is running on the client)
C32_CloseLeavesNoChild ==
    ClosedOrFailed => Running = {}


\* get(k) was called on a store that works
GotFromStore ==
    /\ ret.op = "get"
    /\ ret.redis = "up"

\* C34: get(k) returns a value equal to the value last set under k, for
\* every JSON-serializable value, until the TTL expires or delete(k) is
\* called, and None after that
C34_GetReturnsWhatWasSet ==
    GotFromStore =>
        ret.value = IF ret.was = PyRaise("nothing") THEN PyNone ELSE ret.was

\* a call of the RedisClient or of the MCP client through it
CacheUsers == {"get", "set", "delete", "list_tools", "call_tool"}

\* the step is a call made while the cache is unavailable
DegradedCall ==
    /\ mcp.redis # "up"
    /\ ret'.op \in CacheUsers

\* what such a call does: the store keeps what it has, no error of the
\* cache reaches the caller, a get is a miss, and a listing or tool call on
\* a live session sends its request
DegradedOutcome ==
    /\ mcp'.results = mcp.results
    /\ mcp'.tools_entry = mcp.tools_entry
    /\ ret'.value # PyRaise("redis")
    /\ ret'.op = "get" => ret'.value = PyNone
    /\ (ret'.op \in {"list_tools", "call_tool"} /\ mcp'.session = "live")
          => ret'.sent = 1

\* C33: when the cache is unavailable (never connected, or the store
\* raises), every get is a miss, every set and delete is a no-op, no cache
\* error reaches the caller, and tool listings and tool calls complete by
\* asking the server
C33_UnavailableCacheIsAMiss ==
    [][DegradedCall => DegradedOutcome]_vars

\* a tool call made while the store raises, with its result in the store,
\* was answered by the server
C33_Witness ==
    /\ ret.op = "call_tool"
    /\ mcp.redis = "raising"
    /\ ret.entry # Absent
    /\ ret.sent = 1
    /\ ret.value[1] = "str"


\* the last message of the classified turn carries a media attachment
ClassifiedWithMedia ==
    /\ ret.op = "classify"
    /\ ret.attachments # <<>>

\* C35: a turn whose latest user message carries any media attachment
\* (image, audio or video) is classified (GENERAL, SIMPLE) without a
\* provider call
C35_MediaBypassesClassifier ==
    ClassifiedWithMedia =>
        /\ ret.value.intent = "GENERAL"
        /\ ret.value.complexity = "SIMPLE"
        /\ ret.value.calls = 0

\* the classifier was asked and answered with a text
ClassifiedFromText ==
    /\ ret.op = "classify"
    /\ ret.value.calls = 1

\* a word of the line has a current category in it
NamesCategory(line) ==
    \E i \in DOMAIN line, c \in ValidIntents(registry) :
        Within(c, Upper(line[i]))

\* the line has COMPLEX in a word after a word with COMPLEXITY
CarriesComplex(line) ==
    \E i \in DOMAIN line, j \in DOMAIN line :
        /\ i < j
        /\ Within("COMPLEXITY", Upper(line[i]))
        /\ Within("COMPLEX", Upper(line[j]))

\* C36: for every classifier output the intent is one of the registry's
\* current categories, GENERAL when no line names a category, and the
\* complexity is SIMPLE or COMPLEX, SIMPLE whenever no line carries COMPLEX
\* after the COMPLEXITY key
C36_ClassifierOutputIsParsed ==
    ClassifiedFromText =>
        /\ ret.value.intent \in ValidIntents(registry)
        /\ (\A n \in DOMAIN ret.text : ~NamesCategory(ret.text[n]))
              => ret.value.intent = "GENERAL"
        /\ ret.value.complexity \in {"SIMPLE", "COMPLEX"}
        /\ (\A n \in DOMAIN ret.text : ~CarriesComplex(ret.text[n]))
              => ret.value.complexity = "SIMPLE"

\* the output 'FETCH' / 'COMPLEXITY: 1' was classified (GENERAL, SIMPLE)
C36_Witness ==
    /\ ClassifiedFromText
    /\ ret.text = << <<"FETCH">>, <<"COMPLEXITY:", "1">> >>
    /\ ret.value.intent = "GENERAL"
    /\ ret.value.complexity = "SIMPLE"


\* a plan was made and is being executed
Planned == ret.op \in {"create_plan", "round"}

\* C37: create_plan returns 3 to 6 steps, or the single synthetic step when
\* the planner output yields no step; the plan is never empty, and the
\* steps the executor names lie within it
C37_PlanOfThreeToSix ==
    Planned =>
        /\ ret.plan # <<>>
        /\ \/ Len(ret.plan) \in 3..6
           \/ StepsOf(ret.output) = <<>> /\ ret.plan = <<SyntheticStep>>
        /\ ret.referenced \in 0..Len(ret.plan)


\* the answer rows the turns of the run wrote
AnswerRows == {i \in DOMAIN db : db[i].role = "assistant" /\ db[i].turn > 0}

\* C38: the token counts persisted with an assistant message are the ones
\* a stream of the same turn reported, also when several turns run
\* through one ChatOrchestrator at the same time
C38_UsageOfTheSameTurn ==
    \A i \in AnswerRows : db[i].usage[1] = db[i].turn

============================================================================
